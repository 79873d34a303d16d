----------------------------- MODULE Deployment -----------------------------
(***************************************************************************)
(* One deployment run, from the API request that creates its row to the    *)
(* verdict of the post-deploy checks.                                      *)
(*                                                                         *)
(* The actors are the API handlers (deployment-service.ts), the worker     *)
(* processes and their three job handlers (deployment-processor.ts), the   *)
(* BullMQ queue between them, and the sandboxed script with its RPC proxy. *)
(* They share the database row, and a handler reads the row and writes it  *)
(* in separate steps, so every read a handler acts upon may be stale.      *)
(***************************************************************************)
EXTENDS DeploymentStatus, Naturals, FiniteSets

CONSTANTS
  Workers,          \* the worker processes
  Creds,            \* disposable deployer keys (a bound on prepare attempts)
  None,             \* no key
  MaxTx,            \* most transactions one run of the script sends
  Carried,          \* the transactions of earlier deployments that a broadcast
                    \* artifact committed to the repository names
  MaxCrashes,       \* bound on worker crashes
  LosesLock,        \* the jobs whose lock a live worker may lose
  DatabaseFaults,   \* "refused": calls may fail; "unanswered": a handler's
                    \* last write may be committed and reported as failed
  MayEvict,         \* whether the queue forgets finished jobs of this run
  Requests          \* the requests clients make besides prepare and confirm

ASSUME ConstantsOK ==
  /\ None \notin Creds \cup Workers
  /\ MaxTx \in Nat \ {0}
  /\ Carried \subseteq {None} \X (Nat \ {0})
  /\ MaxCrashes \in Nat
  /\ LosesLock \subseteq {"prepare", "broadcast", "reconcile"}
  /\ DatabaseFaults \subseteq {"refused", "unanswered"}
  /\ MayEvict \in BOOLEAN
  /\ Requests \subseteq {"cancel", "reconcile"}

VARIABLES
  \* the database
  status,       \* the status column, "ABSENT" before the row exists
  deployer,     \* the deployerAddress column
  expected,     \* the transactionCount column, 0 when null
  txRows,       \* the status of each transaction row, "ABSENT" if not recorded
  \* BullMQ
  jobs,
  \* the API process
  toEnqueue,    \* jobs an API handler decided to enqueue and has not yet
  cancelling,   \* a cancel handler has read the row and not yet written it
  \* the worker processes
  worker,       \* where each one's handler stands
  creds,        \* the in-memory map of live deployer keys
  \* the outside world
  issued,       \* keys generated so far
  running,      \* keys whose script container is alive
  net,          \* the fate of each transaction handed to the RPC proxy
  \* history
  confirmed,    \* a client has confirmed a PREPARED run
  launched,     \* keys a broadcast script was started with
  crashes       \* worker crashes so far

dbVars     == <<status, deployer, expected, txRows>>
apiVars    == <<toEnqueue, cancelling, confirmed>>
workerVars == <<worker, creds>>
worldVars  == <<issued, running, net, launched>>
vars == <<dbVars, jobs, apiVars, workerVars, worldVars, crashes>>

-----------------------------------------------------------------------------
Own == Creds \X (1 .. MaxTx)
Tx  == Own \cup Carried

JobNames == {"prepare", "broadcast", "reconcile"}

\* What a receipt lookup can answer for a transaction; "SUBMITTED" is the row
\* before any lookup.
TxStatuses == {"ABSENT", "SUBMITTED", "CONFIRMED", "REVERTED", "UNKNOWN"}

\* "good" will be mined, "bad" will be mined and revert, "lost" is journaled
\* by the proxy but never mined.
Fates == {"absent", "good", "bad", "lost"}

NewJob == [state |-> "none", holder |-> None, attempts |-> 0, stalls |-> 0]
Idle   == [job |-> "none", handler |-> "none", pc |-> "idle", seen |-> "NONE",
           left |-> {}, unknown |-> FALSE]

Recorded    == {t \in Tx : txRows[t] # "ABSENT"}
Journaled   == {t \in Own : net[t] # "absent"}
JournalOf(c) == {t \in Journaled : t[1] = c}

Init ==
  /\ status = "ABSENT" /\ deployer = None /\ expected = 0
  /\ txRows = [t \in Tx |-> "ABSENT"]
  /\ jobs = [j \in JobNames |-> NewJob]
  /\ toEnqueue = {} /\ cancelling = FALSE /\ confirmed = FALSE
  /\ worker = [w \in Workers |-> Idle]
  /\ creds = [w \in Workers |-> None]
  /\ issued = {} /\ running = {} /\ launched = {}
  /\ net \in [Tx -> Fates]
  /\ \A t \in Tx : net[t] = "absent" <=> t \in Own
  /\ crashes = 0

-----------------------------------------------------------------------------
(* The queue.  Adding a job whose id is still known, in whatever state, is *)
(* ignored.  A stalled job is handed out once more, then failed for good.  *)

Attempts(j) == IF j = "prepare" THEN 3 ELSE 1
MaxStalls == 1

Enqueue(j) ==
  /\ j \in toEnqueue
  /\ toEnqueue' = toEnqueue \ {j}
  /\ jobs' = IF jobs[j].state = "none"
             THEN [jobs EXCEPT ![j].state = "waiting"]
             ELSE jobs
  /\ UNCHANGED <<dbVars, cancelling, confirmed, workerVars, worldVars, crashes>>

\* The API process dies between its row write and the enqueue.
DropEnqueue(j) ==
  /\ j \in toEnqueue
  /\ toEnqueue' = toEnqueue \ {j}
  /\ UNCHANGED <<dbVars, jobs, cancelling, confirmed, workerVars, worldVars, crashes>>

Executing(w, j) == worker[w].pc # "idle" /\ worker[w].job = j

\* Mutant of StalledCheck: a stalled job is failed at once.
StalledCheckFails(j) ==
  /\ jobs[j].state = "active"
  /\ ~ Executing(jobs[j].holder, j) \/ j \in LosesLock
  /\ jobs' = [jobs EXCEPT ![j].state = "done", ![j].holder = None]
  /\ UNCHANGED <<dbVars, apiVars, workerVars, worldVars, crashes>>

\* The lock on an active job has expired: its holder crashed, or lives on
\* without having renewed it.
StalledCheck(j) ==
  /\ jobs[j].state = "active"
  /\ \/ ~ Executing(jobs[j].holder, j)
     \/ j \in LosesLock
  /\ jobs' = IF jobs[j].stalls < MaxStalls
             THEN [jobs EXCEPT ![j] =
                    [@ EXCEPT !.state = "waiting", !.holder = None,
                              !.stalls = jobs[j].stalls + 1]]
             ELSE [jobs EXCEPT ![j] = [@ EXCEPT !.state = "done", !.holder = None]]
  /\ UNCHANGED <<dbVars, apiVars, workerVars, worldVars, crashes>>

\* A finished job is forgotten once a hundred later ones have finished; no
\* API handler stands between its read and its enqueue for that long.
Evict(j) ==
  /\ MayEvict
  /\ j \notin toEnqueue
  /\ jobs[j].state = "done"
  /\ jobs' = [jobs EXCEPT ![j] = NewJob]
  /\ UNCHANGED <<dbVars, apiVars, workerVars, worldVars, crashes>>

-----------------------------------------------------------------------------
(* The API handlers.                                                       *)

\* Mutants of RequestPrepare: a repeated request tries a failed run again; it
\* resumes a prepared run.
RequestPrepareRetries ==
  /\ status \in {"ABSENT", "QUEUED", "FAILED"}
  /\ status' = IF status = "ABSENT" THEN "QUEUED" ELSE status
  /\ toEnqueue' = toEnqueue \cup {"prepare"}
  /\ UNCHANGED <<deployer, expected, txRows, jobs, cancelling, confirmed,
                 workerVars, worldVars, crashes>>
RequestPrepareResumes ==
  /\ status \in {"ABSENT", "QUEUED", "PREPARED"}
  /\ status' = IF status = "ABSENT" THEN "QUEUED" ELSE status
  /\ toEnqueue' = toEnqueue \cup {IF status = "PREPARED" THEN "broadcast" ELSE "prepare"}
  /\ UNCHANGED <<deployer, expected, txRows, jobs, cancelling, confirmed,
                 workerVars, worldVars, crashes>>

RequestPrepare ==
  /\ status \in {"ABSENT", "QUEUED"}
  /\ status' = "QUEUED"
  /\ toEnqueue' = toEnqueue \cup {"prepare"}
  /\ UNCHANGED <<deployer, expected, txRows, jobs, cancelling, confirmed,
                 workerVars, worldVars, crashes>>

RequestConfirm ==
  /\ status = "PREPARED"
  /\ toEnqueue' = toEnqueue \cup {"broadcast"}
  /\ confirmed' = TRUE
  /\ UNCHANGED <<dbVars, jobs, cancelling, workerVars, worldVars, crashes>>

\* reconcile only looks at whether the row exists, so its read and its
\* enqueue are one step.
RequestReconcile ==
  /\ "reconcile" \in Requests
  /\ status # "ABSENT"
  /\ jobs["reconcile"].state = "none"
  /\ jobs' = [jobs EXCEPT !["reconcile"].state = "waiting"]
  /\ UNCHANGED <<dbVars, apiVars, workerVars, worldVars, crashes>>

\* cancel refuses a run that is broadcasting, then asserts the transition
\* from the status it read.
RequestCancel ==
  /\ "cancel" \in Requests
  /\ status \in Statuses
  /\ status \notin {"BROADCASTING", "CONFIRMING", "VERIFYING", "COMPLETED"}
  /\ Allowed(status, "CANCELLED")
  /\ cancelling' = TRUE
  /\ UNCHANGED <<dbVars, jobs, toEnqueue, confirmed, workerVars, worldVars, crashes>>

WriteCancelled ==
  /\ cancelling
  /\ status' = "CANCELLED"
  /\ cancelling' = FALSE
  /\ UNCHANGED <<deployer, expected, txRows, jobs, toEnqueue, confirmed,
                 workerVars, worldVars, crashes>>

-----------------------------------------------------------------------------
(* Worker bookkeeping: taking a job, moving on in a handler, leaving it.   *)

At(w, pc) == worker[w].pc = pc
Seen(w) == worker[w].seen

Goto(w, pc, seen) ==
  worker' = [worker EXCEPT ![w] =
    [@ EXCEPT !.pc = pc, !.seen = seen, !.left = {}, !.unknown = FALSE]]

\* A loop over transactions: those still to do, in the order of their
\* sequence, and whether a receipt was missing so far.
Loop(w, pc, left, unknown) ==
  worker' = [worker EXCEPT ![w] =
    [@ EXCEPT !.pc = pc, !.left = left, !.unknown = unknown]]

NextInLoop(w, t) ==
  t \in worker[w].left /\ \A u \in worker[w].left : t[2] <= u[2]

Take(w, j, handler, pc, seen) ==
  /\ At(w, "idle") /\ jobs[j].state = "waiting"
  /\ jobs' = [jobs EXCEPT ![j].state = "active", ![j].holder = w]
  /\ worker' = [worker EXCEPT
       ![w] = [Idle EXCEPT !.job = j, !.handler = handler, !.pc = pc, !.seen = seen]]

\* Only the worker that holds the lock can settle the job.
Settle(w, state, attempts) ==
  LET j == worker[w].job IN
  /\ worker' = [worker EXCEPT ![w] = Idle]
  /\ jobs' = IF jobs[j].state = "active" /\ jobs[j].holder = w
             THEN [jobs EXCEPT ![j].state = state, ![j].holder = None,
                               ![j].attempts = attempts]
             ELSE jobs

Return(w) ==
  /\ At(w, "returning")
  /\ Settle(w, "done", jobs[worker[w].job].attempts)
  /\ UNCHANGED <<dbVars, apiVars, creds, worldVars, crashes>>

Throw(w) ==
  LET j == worker[w].job
      made == jobs[j].attempts + 1
  IN /\ At(w, "throwing")
     /\ IF made < Attempts(j) THEN Settle(w, "waiting", made)
                              ELSE Settle(w, "done", jobs[j].attempts)
     /\ UNCHANGED <<dbVars, apiVars, creds, worldVars, crashes>>

\* The finally block of the broadcast handler: the key is destroyed and the
\* container removed, whichever way the try block ended.
Finally(w) ==
  /\ At(w, "finally") \/ At(w, "finallyThrow")
  /\ creds' = [creds EXCEPT ![w] = None]
  /\ running' = running \ {creds[w]}
  /\ Goto(w, IF At(w, "finally") THEN "returning" ELSE "throwing", "NONE")
  /\ UNCHANGED <<dbVars, jobs, apiVars, issued, net, launched, crashes>>

AfterTry(w)   == IF worker[w].handler = "broadcast" THEN "finally" ELSE "returning"
AfterThrow(w) == IF worker[w].handler = "broadcast" THEN "finallyThrow" ELSE "throwing"

\* fail(): the transition to FAILED from a status read earlier.  A rejected
\* transition, or a write the database refuses, is logged and swallowed.
Fail(w) ==
  /\ At(w, "failing") \/ At(w, "aborting")
  /\ \/ /\ Allowed(Seen(w), "FAILED")
        /\ status' = "FAILED"
     \/ /\ Allowed(Seen(w), "FAILED") => "refused" \in DatabaseFaults
        /\ UNCHANGED status
  /\ Goto(w, IF At(w, "aborting") THEN "finally" ELSE "returning", "NONE")
  /\ UNCHANGED <<deployer, expected, txRows, jobs, apiVars, creds, worldVars, crashes>>

\* One status write of a handler, unconditional in the database.
Write(w, to, pc, seen) ==
  /\ status' = to
  /\ Goto(w, pc, seen)
  /\ UNCHANGED <<txRows, jobs, apiVars, creds, crashes>>

\* The handler's last write has been committed and is now answered.
LastWriteAnswered(w) ==
  /\ At(w, "written")
  /\ Goto(w, AfterTry(w), "NONE")
  /\ UNCHANGED <<dbVars, jobs, apiVars, creds, worldVars, crashes>>

\* A step that only moves the handler on.
Step(w, pc, seen) ==
  /\ Goto(w, pc, seen)
  /\ UNCHANGED <<dbVars, jobs, apiVars, creds, crashes>>

Continue(w, pc, seen) == Step(w, pc, seen) /\ UNCHANGED worldVars

-----------------------------------------------------------------------------
(* processPrepareDeployment.  Everything from the eligibility check on is  *)
(* run again by a redelivered job, whatever the row says by then, unless   *)
(* it reads one of the statuses the first two guards name.                 *)

StartPrepare(w) ==
  /\ CASE status \in {"PREPARED", "COMPLETED", "CANCELLED"} ->
            Take(w, "prepare", "prepare", "returning", "NONE")
       [] status \in PastBroadcast ->
            Take(w, "prepare", "reconcile", "reconcile", "NONE")
       [] status = "QUEUED" ->
            Take(w, "prepare", "prepare", "toChecking", "NONE")
       [] OTHER ->
            Take(w, "prepare", "prepare", "checking", "NONE")
  /\ UNCHANGED <<dbVars, apiVars, creds, worldVars, crashes>>

MarkChecking(w) ==
  /\ At(w, "toChecking")
  /\ Write(w, "CHECKING_ELIGIBILITY", "checking", "NONE")
  /\ UNCHANGED <<deployer, expected, worldVars>>

\* The revision, evaluateEligibility and the target's chain id.  Either way
\* the handler then reads the row again.
CheckEligibility(w) ==
  /\ At(w, "checking")
  /\ \/ Continue(w, "failing", status)
     \/ Continue(w, IF status = "CHECKING_ELIGIBILITY" THEN "toPreparing"
                                                       ELSE "materialize", "NONE")

MarkPreparing(w) ==
  /\ At(w, "toPreparing")
  /\ Write(w, "PREPARING", "materialize", "NONE")
  /\ UNCHANGED <<deployer, expected, worldVars>>

\* reapOrphans removes every deployment container on the host; then the
\* source is materialized, its hash compared and a candidate selected.
Materialize(w) ==
  /\ At(w, "materialize")
  /\ running' = {}
  /\ \/ Step(w, "issue", "NONE")
     \/ Step(w, "failing", "PREPARING")
  /\ UNCHANGED <<issued, net, launched>>

\* storeCredential and setDeployerAddress.
IssueCredential(w) ==
  /\ At(w, "issue")
  /\ \E c \in Creds \ issued :
       /\ creds' = [creds EXCEPT ![w] = c]
       /\ issued' = issued \cup {c}
       /\ deployer' = c
  /\ Goto(w, "toSimulating", "NONE")
  /\ UNCHANGED <<status, expected, txRows, jobs, apiVars, running, net,
                 launched, crashes>>

MarkSimulating(w) ==
  /\ At(w, "toSimulating")
  /\ Write(w, "SIMULATING", "simulate", "NONE")
  /\ deployer' = creds[w]
  /\ UNCHANGED <<expected, worldVars>>

\* The dry run and assertPreflightPolicy.
Simulate(w) ==
  /\ At(w, "simulate")
  /\ \/ Continue(w, "toPrepared", "NONE")
     \/ Continue(w, "failing", "SIMULATING")

\* Mutant of MarkPrepared: the write resets the columns it is not given.
MarkPreparedResets(w) ==
  /\ At(w, "toPrepared")
  /\ Write(w, "PREPARED", "written", "NONE")
  /\ expected' \in 0 .. MaxTx /\ deployer' = None
  /\ UNCHANGED worldVars

\* The transaction count is the one forge printed, or null.
MarkPrepared(w) ==
  /\ At(w, "toPrepared")
  /\ Write(w, "PREPARED", "written", "NONE")
  /\ expected' \in 0 .. MaxTx
  /\ UNCHANGED <<deployer, worldVars>>

PrepareTry == {"materialize", "issue", "toSimulating", "simulate", "toPrepared"}

\* The catch block reads the row and fails the run from what it read, which is
\* PREPARED when only the answer to the last write was lost.
CatchPrepare(w) ==
  /\ \/ worker[w].pc \in PrepareTry
     \/ /\ At(w, "written") /\ worker[w].handler = "prepare"
        /\ "unanswered" \in DatabaseFaults
  /\ Continue(w, "failing", status)

-----------------------------------------------------------------------------
(* processBroadcastDeployment.                                             *)

\* Mutant of StartBroadcast: without the check that the key is still there.
StartBroadcastWithoutKey(w) ==
  /\ CASE status \in {"COMPLETED", "CANCELLED"} ->
            Take(w, "broadcast", "broadcast", "returning", "NONE")
       [] status \in PastBroadcast ->
            Take(w, "broadcast", "reconcile", "reconcile", "NONE")
       [] status \in {"PREPARED", "FUNDING"} ->
            Take(w, "broadcast", "broadcast",
                 IF status = "PREPARED" THEN "toFunding" ELSE "funding", "NONE")
       [] OTHER ->
            Take(w, "broadcast", "broadcast", "throwing", "NONE")
  /\ UNCHANGED <<dbVars, apiVars, creds, worldVars, crashes>>

\* The two alternatives of the last case are confirmTargetRpc's, which is
\* called between the read of the row and the write of FUNDING.
StartBroadcast(w) ==
  /\ CASE status \in {"COMPLETED", "CANCELLED"} ->
            Take(w, "broadcast", "broadcast", "returning", "NONE")
       [] status \in PastBroadcast ->
            Take(w, "broadcast", "reconcile", "reconcile", "NONE")
       [] status \notin PastBroadcast
                      \cup {"COMPLETED", "CANCELLED", "PREPARED", "FUNDING"} ->
            Take(w, "broadcast", "broadcast", "throwing", "NONE")
       [] status \in {"PREPARED", "FUNDING"} /\ creds[w] = None ->
            Take(w, "broadcast", "broadcast", "failing", status)
       [] OTHER ->
            \/ Take(w, "broadcast", "broadcast", "throwing", "NONE")
            \/ Take(w, "broadcast", "broadcast",
                    IF status = "PREPARED" THEN "toFunding" ELSE "funding", "NONE")
  /\ UNCHANGED <<dbVars, apiVars, creds, worldVars, crashes>>

MarkFunding(w) ==
  /\ At(w, "toFunding")
  /\ Write(w, "FUNDING", "funding", "NONE")
  /\ UNCHANGED <<deployer, expected, worldVars>>

\* fundDeployer, the candidate and the revision; a failure here leaves
\* before the try block, so the key is not destroyed.
Fund(w) ==
  /\ At(w, "funding")
  /\ \/ Continue(w, "toBroadcasting", "NONE")
     \/ Continue(w, "failing", "FUNDING")

\* Materializing, the proxy or the sandbox failed: broadcastBegan is false.
CatchBeforeBroadcast(w) ==
  /\ At(w, "toBroadcasting")
  /\ Continue(w, "aborting", status)

\* BROADCASTING is written, then the script is started with the key.
MarkBroadcasting(w) ==
  /\ At(w, "toBroadcasting")
  /\ Write(w, "BROADCASTING", "script", "NONE")
  /\ launched' = launched \cup {creds[w]}
  /\ running' = running \cup {creds[w]}
  /\ UNCHANGED <<deployer, expected, issued, net>>

\* The script sends its next transaction: the proxy journals it, then
\* forwards it.  The script does not stop because its worker did.
SendRawTransaction(c) ==
  /\ c \in running
  /\ \E i \in 1 .. MaxTx, fate \in Fates \ {"absent"} :
       /\ \A k \in 1 .. MaxTx : k < i <=> net[<<c, k>>] # "absent"
       /\ net' = [net EXCEPT ![<<c, i>>] = fate]
  /\ UNCHANGED <<dbVars, jobs, apiVars, workerVars, issued, running, launched, crashes>>

\* sandbox.execute returns and the journal is read.  After a timeout only the
\* docker client is known to be gone, so the script may go on sending; a
\* script whose container was removed exits with an error.
ScriptReturns(w) ==
  /\ At(w, "script")
  /\ \E result \in {"OK", "ERROR", "TIMEOUT"} :
       /\ result = "OK" => creds[w] \in running
       /\ running' = IF result = "TIMEOUT" THEN running ELSE running \ {creds[w]}
       /\ worker' = [worker EXCEPT ![w] =
            [@ EXCEPT !.pc = "recording", !.seen = result, !.left = JournalOf(creds[w])]]
  /\ UNCHANGED <<dbVars, jobs, apiVars, creds, crashes, issued, net, launched>>

\* recordTransaction for the next hash read from the journal or an artifact.
RecordTransaction(w) ==
  /\ At(w, "recording") \/ At(w, "artifacts")
  /\ \E t \in worker[w].left :
       /\ NextInLoop(w, t)
       /\ txRows' = [txRows EXCEPT ![t] = "SUBMITTED"]
       /\ Loop(w, worker[w].pc, worker[w].left \ {t}, FALSE)
  /\ UNCHANGED <<status, deployer, expected, jobs, apiVars, creds, worldVars, crashes>>

\* What the first run-latest.json below broadcast/ may name: nothing, what this
\* script sent, or what the repository carries.
Artifacts(w) == {{}, JournalOf(creds[w]), Carried}

\* Mutant of LoadArtifacts: a failed script fails the run, whatever it sent.
LoadArtifactsFails(w) ==
  /\ At(w, "recording") /\ worker[w].left = {}
  /\ \E named \in Artifacts(w) :
       IF Seen(w) = "ERROR"
       THEN Goto(w, "aborting", "BROADCASTING")
       ELSE Loop(w, "artifacts", named, FALSE)
  /\ UNCHANGED <<dbVars, jobs, apiVars, creds, worldVars, crashes>>

\* loadForgeBroadcast, once the journaled hashes are recorded.  A script that
\* failed without any hash fails the run.
LoadArtifacts(w) ==
  /\ At(w, "recording") /\ worker[w].left = {}
  /\ \E named \in Artifacts(w) :
       IF Seen(w) = "ERROR" /\ named = {} /\ JournalOf(creds[w]) \cap Recorded = {}
       THEN Goto(w, "aborting", "BROADCASTING")
       ELSE Loop(w, "artifacts", named, FALSE)
  /\ UNCHANGED <<dbVars, jobs, apiVars, creds, worldVars, crashes>>

\* Every hash read is recorded.
ScriptOutcome(w) ==
  /\ At(w, "artifacts") /\ worker[w].left = {}
  /\ IF Seen(w) = "TIMEOUT"
     THEN Continue(w, "toRecon", "BROADCASTING")
     ELSE Continue(w, "submitted", "NONE")

MarkSubmitted(w) ==
  /\ At(w, "submitted")
  /\ Write(w, "CONFIRMING", "confirm", "NONE")
  /\ UNCHANGED <<deployer, expected, worldVars>>

-----------------------------------------------------------------------------
(* processReconcileDeployment and confirmAndVerify.                        *)

StartReconcile(w) ==
  /\ Take(w, "reconcile", "reconcile", "reconcile", "NONE")
  /\ UNCHANGED <<dbVars, apiVars, creds, worldVars, crashes>>

\* The two alternatives of the last case are confirmTargetRpc's.
Reconcile(w) ==
  /\ At(w, "reconcile")
  /\ IF Recorded = {}
     THEN IF status \in {"BROADCASTING", "RECONCILIATION_REQUIRED"}
          THEN Continue(w, "toRecon", status)
          ELSE Continue(w, "returning", "NONE")
     ELSE \/ Continue(w, "confirm", status)
          \/ IF status # "RECONCILIATION_REQUIRED"
             THEN Continue(w, "toRecon", status)
             ELSE Continue(w, "returning", "NONE")

\* The write of RECONCILIATION_REQUIRED from a status read earlier.  A
\* rejected transition leaves the handler as an error.
MarkReconciliation(w) ==
  /\ At(w, "toRecon")
  /\ IF Allowed(Seen(w), "RECONCILIATION_REQUIRED")
     THEN /\ Write(w, "RECONCILIATION_REQUIRED", "written", "NONE")
          /\ UNCHANGED <<deployer, expected, worldVars>>
     ELSE Continue(w, AfterThrow(w), "NONE")

\* Mutants of Receipts: the last answer is kept when the time is up; the
\* status of a receipt is not looked at.
ReceiptsPending(t) ==
  IF net[t] = "good" THEN {"CONFIRMED", "PENDING"} ELSE {"PENDING"}
ReceiptsMined(t) ==
  IF net[t] \in {"good", "bad"} THEN {"CONFIRMED", "UNKNOWN"} ELSE {"UNKNOWN"}

\* waitForConfirmations: a lookup that times out is UNKNOWN.
Receipts(t) ==
  CASE net[t] = "good" -> {"CONFIRMED", "UNKNOWN"}
    [] net[t] = "bad"  -> {"REVERTED", "UNKNOWN"}
    [] OTHER           -> {"UNKNOWN"}

\* confirmAndVerify lists the rows once, looks each one up and writes what it
\* found, then reads the row of the run.
ListTransactions(w) ==
  /\ At(w, "confirm")
  /\ Loop(w, "receipts", Recorded, FALSE)
  /\ UNCHANGED <<dbVars, jobs, apiVars, creds, worldVars, crashes>>

LookUpReceipt(w) ==
  /\ At(w, "receipts")
  /\ \E t \in worker[w].left : \E answer \in Receipts(t) :
       /\ NextInLoop(w, t)
       /\ txRows' = [txRows EXCEPT ![t] = answer]
       /\ Loop(w, "receipts", worker[w].left \ {t},
               worker[w].unknown \/ answer = "UNKNOWN")
  /\ UNCHANGED <<status, deployer, expected, jobs, apiVars, creds, worldVars, crashes>>

ReceiptsDone(w) ==
  /\ At(w, "receipts") /\ worker[w].left = {}
  /\ \/ /\ worker[w].unknown /\ status # "RECONCILIATION_REQUIRED"
        /\ Continue(w, "unknown", IF Seen(w) = "NONE" THEN status ELSE Seen(w))
     \/ /\ worker[w].unknown /\ status = "RECONCILIATION_REQUIRED"
        /\ Continue(w, AfterTry(w), "NONE")
     \/ /\ ~ worker[w].unknown
        /\ Continue(w, IF status = "BROADCASTING" THEN "toConfirming"
                                                  ELSE "afterConfirm", "NONE")

MarkUnknown(w) ==
  /\ At(w, "unknown")
  /\ IF Allowed(Seen(w), "RECONCILIATION_REQUIRED")
     THEN /\ Write(w, "RECONCILIATION_REQUIRED", "written", "NONE")
          /\ UNCHANGED <<deployer, expected, worldVars>>
     ELSE Continue(w, "caught", "NONE")

MarkConfirming(w) ==
  /\ At(w, "toConfirming")
  /\ Write(w, "CONFIRMING", "afterConfirm", "NONE")
  /\ UNCHANGED <<deployer, expected, worldVars>>

ReadAfterConfirm(w) ==
  /\ At(w, "afterConfirm")
  /\ Continue(w, IF status \in {"CONFIRMING", "RECONCILIATION_REQUIRED"}
                 THEN "toVerifying" ELSE "verify", "NONE")

MarkVerifying(w) ==
  /\ At(w, "toVerifying")
  /\ Write(w, "VERIFYING", "verify", "NONE")
  /\ UNCHANGED <<deployer, expected, worldVars>>

\* The deployer the checks look at: the key the script ran with, or the
\* column when reconciling.
CheckedDeployer(w) == IF worker[w].handler = "broadcast" THEN creds[w] ELSE deployer

\* Mutant of ChecksCanPass: that one of the rows succeeded is enough.
ChecksCountOne(w) ==
  /\ \E t \in Recorded : txRows[t] = "CONFIRMED"
  /\ \E t \in Tx : t[1] = CheckedDeployer(w) /\ net[t] \in {"good", "bad"}
  /\ expected <= Cardinality(Recorded)

\* runPostDeployChecks over the rows as they are now.  At least one contract
\* was found and at most one per transaction; their number is compared with
\* transactionCount when that is set.
ChecksCanPass(w) ==
  /\ Recorded # {}
  /\ \A t \in Recorded : txRows[t] = "CONFIRMED"
  /\ \E t \in Tx : t[1] = CheckedDeployer(w) /\ net[t] \in {"good", "bad"}
  /\ expected <= Cardinality(Recorded)

\* A check may also fail for what the model leaves out (missing bytecode).
PostDeployChecks(w) ==
  /\ At(w, "verify")
  /\ \/ ChecksCanPass(w) /\ Continue(w, "toCompleted", "NONE")
     \/ Continue(w, "toFailed", "NONE")

\* The verdict is written from the literal VERIFYING.
WriteVerdict(w) ==
  /\ \/ At(w, "toCompleted") /\ Write(w, "COMPLETED", "written", "NONE")
     \/ At(w, "toFailed") /\ Write(w, "FAILED", "written", "NONE")
  /\ UNCHANGED <<deployer, expected, worldVars>>

ScriptTry  == {"script", "recording", "artifacts", "submitted"}
ConfirmTry == {"confirm", "receipts", "unknown", "toConfirming", "afterConfirm",
               "toVerifying", "verify", "toCompleted", "toFailed"}

\* An RPC or database call throws after the script began, or in
\* confirmAndVerify.
CatchAfterBroadcast(w) ==
  /\ worker[w].pc \in ScriptTry \cup ConfirmTry
  /\ Continue(w, "caught", "NONE")

\* The catch block reads the row: the broadcast handler always goes on to
\* write RECONCILIATION_REQUIRED, the reconcile handler leaves two statuses.
Caught(w) ==
  /\ At(w, "caught")
  /\ IF /\ worker[w].handler = "reconcile"
        /\ status \in {"RECONCILIATION_REQUIRED", "COMPLETED"}
     THEN Continue(w, "returning", "NONE")
     ELSE Continue(w, "toRecon", status)

-----------------------------------------------------------------------------
(* What can go wrong around a handler.                                     *)

\* The database is gone for the rest of the handler, from a call that may have
\* been committed: its catch block cannot read the row either, and the job
\* ends with the error.
DatabaseLost(w) ==
  /\ (IF At(w, "written") THEN "unanswered" ELSE "refused") \in DatabaseFaults
  /\ worker[w].pc \notin {"idle", "failing", "aborting", "returning", "throwing",
                          "finally", "finallyThrow"}
  /\ Continue(w, IF \/ worker[w].pc \in ScriptTry \cup {"toBroadcasting"}
                    \/ /\ worker[w].pc \in ConfirmTry \cup {"caught", "toRecon", "written"}
                       /\ worker[w].handler = "broadcast"
                 THEN "finallyThrow" ELSE "throwing", "NONE")

\* The process dies and comes back without its keys.  Its job stays active
\* until a stalled check; its container runs on.
Crash(w) ==
  /\ crashes < MaxCrashes
  /\ crashes' = crashes + 1
  /\ worker' = [worker EXCEPT ![w] = Idle]
  /\ creds' = [creds EXCEPT ![w] = None]
  /\ UNCHANGED <<dbVars, jobs, apiVars, worldVars>>

\* A validation job on the same host reaps all deployment containers too.
ValidationReaps ==
  /\ running # {}
  /\ running' = {}
  /\ UNCHANGED <<dbVars, jobs, apiVars, workerVars, issued, net, launched, crashes>>

-----------------------------------------------------------------------------
PrepareStep(w) ==
  \/ StartPrepare(w) \/ MarkChecking(w) \/ CheckEligibility(w)
  \/ MarkPreparing(w) \/ Materialize(w) \/ IssueCredential(w)
  \/ MarkSimulating(w) \/ Simulate(w) \/ MarkPrepared(w) \/ CatchPrepare(w)

BroadcastStep(w) ==
  \/ StartBroadcast(w) \/ MarkFunding(w) \/ Fund(w) \/ CatchBeforeBroadcast(w)
  \/ MarkBroadcasting(w) \/ ScriptReturns(w) \/ RecordTransaction(w)
  \/ LoadArtifacts(w) \/ ScriptOutcome(w) \/ MarkSubmitted(w)

ReconcileStep(w) ==
  \/ StartReconcile(w) \/ Reconcile(w) \/ MarkReconciliation(w)
  \/ ListTransactions(w) \/ LookUpReceipt(w) \/ ReceiptsDone(w)
  \/ MarkUnknown(w) \/ MarkConfirming(w) \/ ReadAfterConfirm(w)
  \/ MarkVerifying(w) \/ PostDeployChecks(w) \/ WriteVerdict(w)
  \/ CatchAfterBroadcast(w) \/ Caught(w)

EndStep(w) == LastWriteAnswered(w) \/ Fail(w) \/ Finally(w) \/ Return(w) \/ Throw(w)

WorkerStep(w) ==
  PrepareStep(w) \/ BroadcastStep(w) \/ ReconcileStep(w) \/ EndStep(w)

ApiStep ==
  \/ RequestPrepare \/ RequestConfirm \/ RequestReconcile \/ RequestCancel
  \/ WriteCancelled

QueueStep(j) == Enqueue(j) \/ DropEnqueue(j) \/ StalledCheck(j) \/ Evict(j)

Next ==
  \/ ApiStep
  \/ \E j \in JobNames : QueueStep(j)
  \/ \E w \in Workers : WorkerStep(w) \/ DatabaseLost(w) \/ Crash(w)
  \/ \E c \in Creds : SendRawTransaction(c)
  \/ ValidationReaps

Spec == Init /\ [][Next]_vars

\* The event loop of a live worker goes on, the queue hands out waiting jobs
\* in turn, stalled jobs are looked for periodically, and an API handler
\* that is not killed enqueues what it decided to.
Fairness ==
  /\ \A w \in Workers :
       /\ WF_vars(PrepareStep(w) \/ BroadcastStep(w) \/ ReconcileStep(w) \/ EndStep(w))
       /\ SF_vars(StartPrepare(w)) /\ SF_vars(StartBroadcast(w)) /\ SF_vars(StartReconcile(w))
  /\ \A j \in JobNames : WF_vars(StalledCheck(j)) /\ WF_vars(Enqueue(j))

FairSpec == Spec /\ Fairness

-----------------------------------------------------------------------------
Pcs ==
  {"idle", "toChecking", "checking", "toPreparing", "toFunding", "funding",
   "toBroadcasting", "reconcile", "toRecon", "caught", "failing", "aborting",
   "written", "finally", "finallyThrow", "returning", "throwing"}
    \cup PrepareTry \cup ScriptTry \cup ConfirmTry

SeenValues == Statuses \cup {"ABSENT", "NONE", "OK", "ERROR", "TIMEOUT"}

WorkerStates ==
  [job     : JobNames \cup {"none"},
   handler : {"none", "prepare", "broadcast", "reconcile"},
   pc      : Pcs,
   seen    : SeenValues,
   left    : SUBSET Tx,
   unknown : BOOLEAN]

JobStates ==
  [state    : {"none", "waiting", "active", "done"},
   holder   : Workers \cup {None},
   attempts : Nat,
   stalls   : Nat]

\* Every variable has the shape the actions rely on.
TypeOK ==
  /\ status \in Statuses \cup {"ABSENT"}
  /\ deployer \in Creds \cup {None}
  /\ expected \in Nat
  /\ txRows \in [Tx -> TxStatuses]
  /\ jobs \in [JobNames -> JobStates]
  /\ toEnqueue \in SUBSET JobNames
  /\ cancelling \in BOOLEAN
  /\ worker \in [Workers -> WorkerStates]
  /\ \A w \in Workers : worker[w].pc # "idle" => worker[w].job \in JobNames
  /\ creds \in [Workers -> Creds \cup {None}]
  /\ issued \in SUBSET Creds
  /\ running \in SUBSET Creds
  /\ net \in [Tx -> Fates]
  /\ confirmed \in BOOLEAN
  /\ launched \in SUBSET Creds
  /\ crashes \in Nat
=============================================================================
