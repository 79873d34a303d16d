------------------------------ MODULE Validation ------------------------------
(***************************************************************************)
(* Validation runs: a revision is materialised, checked against its hash,  *)
(* and built and tested in a container.                                    *)
(*                                                                         *)
(* The actors are the API handler that requests a validation               *)
(* (validation-service.ts), worker processes that run one validation       *)
(* handler at a time (validation-processor.ts), the queue, and the Docker  *)
(* host the workers share, on which the deployment handlers reap           *)
(* containers too (sandbox/runner.ts).  A database call is a step of its   *)
(* own; the one that marks a step RUNNING is taken with the call before.   *)
(***************************************************************************)
EXTENDS ValidationProfile, FiniteSets

CONSTANTS
  Workers,        \* worker processes on one Docker host
  Clients,        \* requests being handled at a time
  Originals,      \* revisions of type ORIGINAL
  Generated,      \* revisions of type GENERATED
  Repos,          \* what a checked out revision may look like
  None,
  MaxAttempts,    \* attempts of jobOptions
  MaxFaults       \* bound on crashes and failing calls

Revisions == Originals \cup Generated

ASSUME ValidationConstants ==
  /\ IsFiniteSet(Workers) /\ IsFiniteSet(Clients) /\ IsFiniteSet(Revisions)
  /\ Originals \cap Generated = {}
  /\ None \notin Revisions
  /\ MaxAttempts \in Nat \ {0} /\ MaxFaults \in Nat

VARIABLES
  repo,           \* what the revisions contain
  run,            \* the validation run of each revision
  step,           \* its step rows
  entry,          \* BullMQ: the job of each run
  handler,        \* the workers' handlers
  box,            \* the container of each worker's handler
  leaked,         \* whether a container is left that no handler knows of
  client,
  evidence,       \* what the handler that decided a run saw its commands do
  faults,         \* crashes and failed calls so far
  lost            \* a call failed, or its answer was lost

dbVars   == <<repo, run, step>>
hostVars == <<box, leaked>>
vars     == <<dbVars, entry, handler, hostVars, client, evidence, faults, lost>>

-----------------------------------------------------------------------------
Statuses == {"ABSENT", "QUEUED", "PREPARING", "INSTALLING", "BUILDING", "TESTING",
             "COMPLETED", "FAILED", "TIMED_OUT"}
Outcomes == {"none", "PASSED", "FAILED", "UNSUPPORTED", "INFRA_FAILURE"}
\* Of the step rows, those of the commands; nothing reads the others, MATERIALIZE,
\* VERIFY_REVISION and CLEANUP.
Steps    == {"INSTALL", "BUILD", "TEST"}
StepStatuses == {"PENDING", "RUNNING", "PASSED", "FAILED", "SKIPPED", "TIMED_OUT"}

ALLOWED_VALIDATION_TRANSITIONS ==
  [s \in Statuses |->
    CASE s = "QUEUED"     -> {"PREPARING", "FAILED"}
      [] s = "PREPARING"  -> {"INSTALLING", "BUILDING", "TESTING", "COMPLETED", "FAILED",
                              "TIMED_OUT"}
      [] s = "INSTALLING" -> {"BUILDING", "COMPLETED", "FAILED", "TIMED_OUT"}
      [] s = "BUILDING"   -> {"TESTING", "COMPLETED", "FAILED", "TIMED_OUT"}
      [] s = "TESTING"    -> {"COMPLETED", "FAILED", "TIMED_OUT"}
      [] s = "FAILED"     -> {"QUEUED"}
      [] OTHER            -> {}]

statusForStep(name) ==
  CASE name = "INSTALL" -> "INSTALLING" [] name = "BUILD" -> "BUILDING"
    [] name = "TEST" -> "TESTING"

NoRun    == [status |-> "ABSENT", outcome |-> "none", error |-> "none",
             build |-> "none", test |-> "none", counted |-> FALSE]
NewEntry == [state |-> "none", attempts |-> 0, stalls |-> 0]
Idle     == [run |-> None, pc |-> "idle", left |-> <<>>, current |-> "PREPARING",
             verdict |-> NoRun, seen |-> <<>>, failed |-> FALSE]
Free     == [pc |-> "idle", rev |-> None]

Init ==
  /\ repo \in Repos
  /\ run = [r \in Revisions |-> NoRun]
  /\ step = [r \in Revisions |-> [n \in Steps |-> "PENDING"]]
  /\ entry = [r \in Revisions |-> NewEntry]
  /\ handler = [w \in Workers |-> Idle]
  /\ box = [w \in Workers |-> "none"] /\ leaked = FALSE
  /\ client = [c \in Clients |-> Free]
  /\ evidence = [r \in Revisions |-> <<>>]
  /\ faults = 0 /\ lost = FALSE

Profile == selectProfile(detectWorkspace(repo))
Planned == {Profile.commands[i].step : i \in DOMAIN Profile.commands}

Fault     == faults < MaxFaults /\ faults' = faults + 1
CallFault == Fault /\ lost' = TRUE
NoFault   == UNCHANGED <<faults, lost>>

-----------------------------------------------------------------------------
(* The queue: as in Intake.                                                *)

MaxStalls == 1

Again(e)        == [e EXCEPT !.state = "waiting", !.attempts = @ + 1]
AgainStalled(e) == [e EXCEPT !.state = "waiting", !.stalls = @ + 1]
Forgotten       == [NewEntry EXCEPT !.state = "done"]

Take(w, r) ==
  /\ handler[w] = Idle
  /\ entry[r].state = "waiting"
  /\ entry' = [entry EXCEPT ![r].state = "active"]
  /\ handler' = [handler EXCEPT ![w] = [Idle EXCEPT !.run = r, !.pc = "read"]]
  /\ UNCHANGED <<dbVars, hostVars, client, evidence>> /\ NoFault

\* The job of a dead worker is handed out once more.
Stalled(r) ==
  /\ entry[r].state = "active" /\ \A w \in Workers : handler[w].run # r
  /\ entry' = [entry EXCEPT ![r] =
                 IF entry[r].stalls < MaxStalls THEN AgainStalled(entry[r]) ELSE Forgotten]
  /\ UNCHANGED <<dbVars, handler, hostVars, client, evidence>> /\ NoFault

\* The handler ended; an error is retried while attempts are left.
Settle(w, failed) ==
  LET r == handler[w].run IN
  /\ handler' = [handler EXCEPT ![w] = Idle]
  /\ entry' = [entry EXCEPT ![r] =
                 IF failed /\ entry[r].attempts + 1 < MaxAttempts THEN Again(entry[r])
                 ELSE Forgotten]

\* A worker dies; its container lives on.
Crash(w) ==
  /\ handler[w] # Idle
  /\ Fault /\ UNCHANGED lost
  /\ handler' = [handler EXCEPT ![w] = Idle]
  /\ box' = [box EXCEPT ![w] = "none"]
  /\ leaked' = (leaked \/ box[w] = "up")
  /\ UNCHANGED <<dbVars, entry, client, evidence>>

-----------------------------------------------------------------------------
(* processValidationJob.  A handler's program counter is its next call.    *)

At(w, pc) == handler[w].pc = pc
Goto(w, h) == handler' = [handler EXCEPT ![w] = h] /\ UNCHANGED entry
To(w, pc)  == Goto(w, [handler[w] EXCEPT !.pc = pc])

BeforeTry == {"read", "requeue", "reread", "start", "reap"}

\* An error before the try block ends the handler, one inside it is caught.
Throw(w) ==
  IF handler[w].pc \in BeforeTry THEN Settle(w, TRUE)
  ELSE Goto(w, [handler[w] EXCEPT !.pc = "catch", !.failed = TRUE])

\* A write goes through, or is reported as failed although it did.
Written(w, h) ==
  \/ Goto(w, h) /\ NoFault
  \/ CallFault /\ Throw(w)

\* A database call fails and changes nothing.
Refused(w) ==
  /\ handler[w].pc \in BeforeTry \cup {"verify", "select", "enter", "record", "finish"}
  /\ CallFault /\ Throw(w)
  /\ UNCHANGED <<dbVars, hostVars, client, evidence>>

OnlyHandler == UNCHANGED <<dbVars, hostVars, client, evidence>>
OnlyRun     == UNCHANGED <<repo, hostVars, client>>

-----------------------------------------------------------------------------
(* The Docker host                                                         *)

\* reapOrphans removes every container with one of the three labels, whoever
\* is using it.
Reaped(w) ==
  /\ box' = [v \in Workers |-> IF v # w /\ box[v] = "up" THEN "reaped" ELSE box[v]]
  /\ leaked' = FALSE

\* prepare creates, starts and inspects a container and then asks for the
\* image's digest: that failing, the container stays and nobody has its handle.
Provisioned(w) ==
  \/ box' = [box EXCEPT ![w] = "up"] /\ To(w, "enter") /\ NoFault /\ UNCHANGED leaked
  \/ Throw(w) /\ CallFault /\ leaked' \in {leaked, TRUE} /\ UNCHANGED box

\* What a command in the container comes to.  One that overruns is killed by
\* `timeout --signal=KILL`, which then exits 137 and not 124: only the Docker
\* client's own timeout, five seconds later, is reported as one.
execute(w) == IF box[w] = "up" THEN {"pass", "fail", "killed", "timeout"} ELSE {"gone"}

\* The handle's container is removed; one that could not be stays.
Destroyed(w, done) ==
  /\ box' = [box EXCEPT ![w] = "none"]
  /\ leaked' = (leaked \/ (~ done /\ box[w] = "up"))

\* The prepare handler of a deployment, beside the validation handlers, reaps as well.
DeploymentReaps ==
  /\ leaked \/ \E w \in Workers : box[w] = "up"
  /\ box' = [w \in Workers |-> IF box[w] = "up" THEN "reaped" ELSE box[w]]
  /\ leaked' = FALSE
  /\ UNCHANGED <<dbVars, entry, handler, client, evidence>> /\ NoFault

-----------------------------------------------------------------------------
(* The steps of the handler                                                *)

\* transition() compares the caller's idea of the old status with the table
\* and then writes unconditionally.
Transition(r, from, row) ==
  /\ row.status \in ALLOWED_VALIDATION_TRANSITIONS[from]
  /\ run' = [run EXCEPT ![r] = row]

\* A step row is updated by run and name, whatever it held.
updateStep(r, n, status) == step' = [step EXCEPT ![r][n] = status]

\* The counts of the test run replace those of an earlier delivery.
persistTestCounts(r) == run' = [run EXCEPT ![r].counted = TRUE]

\* Mutant of Read: only a run that is QUEUED or FAILED is taken up.
ReadFresh(w) ==
  LET row == run[handler[w].run] IN
  /\ At(w, "read")
  /\ IF row.status \in {"QUEUED", "FAILED"}
     THEN To(w, IF row.status = "FAILED" THEN "requeue" ELSE "reread")
     ELSE Settle(w, FALSE)
  /\ NoFault /\ OnlyHandler

Read(w) ==
  LET row == run[handler[w].run] IN
  /\ At(w, "read")
  /\ IF \/ row.status \in {"COMPLETED", "TIMED_OUT"}
        \/ row.status = "FAILED" /\ row.outcome # "INFRA_FAILURE"
     THEN Settle(w, FALSE)
     ELSE To(w, IF row.status = "FAILED" THEN "requeue" ELSE "reread")
  /\ NoFault /\ OnlyHandler

Requeue(w) ==
  LET r == handler[w].run IN
  /\ At(w, "requeue")
  /\ Transition(r, "FAILED", [run[r] EXCEPT !.status = "QUEUED"])
  /\ Written(w, [handler[w] EXCEPT !.pc = "reread"])
  /\ UNCHANGED <<step, evidence>> /\ OnlyRun

Reread(w) ==
  /\ At(w, "reread")
  /\ To(w, IF run[handler[w].run].status = "QUEUED" THEN "start" ELSE "reap")
  /\ NoFault /\ OnlyHandler

Start(w) ==
  LET r == handler[w].run IN
  /\ At(w, "start")
  /\ Transition(r, "QUEUED", [run[r] EXCEPT !.status = "PREPARING"])
  /\ Written(w, [handler[w] EXCEPT !.pc = "reap"])
  /\ UNCHANGED <<step, evidence>> /\ OnlyRun

\* The workspace is allocated after the reap.
Reap(w) ==
  /\ At(w, "reap")
  /\ Reaped(w)
  /\ To(w, "materialize")
  /\ UNCHANGED <<dbVars, client, evidence>> /\ NoFault

\* What failRun and finish write.
Verdict(status, outcome, error, build, test) ==
  [NoRun EXCEPT !.status = status, !.outcome = outcome, !.error = error,
                !.build = build, !.test = test]

Fail(w, code) ==
  Goto(w, [handler[w] EXCEPT !.pc = "finish", !.current = "PREPARING",
                             !.verdict = Verdict("FAILED", "INFRA_FAILURE", code,
                                                 "none", "none")])

\* A generated revision is copied from the artifact store and never fetched
\* from GitHub; an original one is fetched.
Materialize(w) ==
  /\ At(w, "materialize")
  /\ \/ To(w, "verify") /\ NoFault
     \/ handler[w].run \in Generated /\ Fail(w, "REVISION_ARTIFACT_MISSING") /\ NoFault
     \/ Throw(w) /\ CallFault
  /\ OnlyHandler

\* A generated revision's tree is hashed; an original's commit was compared
\* by materializeRevision.
Verify(w) ==
  /\ At(w, "verify")
  /\ \/ To(w, "select") /\ NoFault
     \/ handler[w].run \in Generated /\ Fail(w, "REVISION_INTEGRITY_MISMATCH") /\ NoFault
  /\ OnlyHandler

Select(w) ==
  LET r == handler[w].run IN
  /\ At(w, "select")
  /\ IF Profile.unsupported # "none"
     THEN /\ step' = [step EXCEPT ![r] = [n \in Steps |-> "SKIPPED"]]
          /\ Goto(w, [handler[w] EXCEPT !.pc = "finish",
                        !.verdict = Verdict("COMPLETED", "UNSUPPORTED",
                                            Profile.unsupported, "none", "none")])
     ELSE /\ Goto(w, [handler[w] EXCEPT !.pc = "prepare", !.left = Profile.commands])
          /\ UNCHANGED step
  /\ UNCHANGED <<run, evidence>> /\ OnlyRun /\ NoFault

Prepare(w) ==
  /\ At(w, "prepare")
  /\ Provisioned(w)
  /\ UNCHANGED <<dbVars, client, evidence>>

Enter(w) ==
  LET r == handler[w].run
      next == statusForStep(Head(handler[w].left).step)
  IN
  /\ At(w, "enter")
  /\ IF handler[w].current = next THEN UNCHANGED run
     ELSE Transition(r, handler[w].current, [run[r] EXCEPT !.status = next])
  /\ updateStep(r, Head(handler[w].left).step, "RUNNING")
  /\ Written(w, [handler[w] EXCEPT !.pc = "execute", !.current = next])
  /\ OnlyRun /\ UNCHANGED evidence

\* The handler sees an exit code and whether the client timed out; it cannot
\* tell that the container is gone or that the command was killed.
Execute(w) ==
  /\ At(w, "execute")
  /\ \E result \in execute(w) :
       Goto(w, [handler[w] EXCEPT
                  !.pc = "record",
                  !.seen = Append(@, [step |-> Head(handler[w].left).step,
                                      result |-> result])])
  /\ NoFault /\ OnlyHandler

\* The verdict on a command that did not pass.
CommandVerdict(command, result) ==
  LET code == classifyCommandFailure(command.step,
                                     detectWorkspace(repo).hasLifecycleScripts, command.tool)
  IN  IF result = "timeout"
      THEN Verdict("TIMED_OUT", "FAILED", "EXECUTION_TIMEOUT", "none", "none")
      ELSE Verdict("COMPLETED", FailureOutcome(code), code,
                   IF command.step = "INSTALL" THEN "none" ELSE "FAILED",
                   IF command.step = "TEST" THEN "FAILED" ELSE "none")

Passed == Verdict("COMPLETED", "PASSED", "none",
                  IF "BUILD" \in Planned THEN "PASSED" ELSE "SKIPPED",
                  IF "TEST" \in Planned THEN "PASSED" ELSE "SKIPPED")

Failures == {"fail", "killed", "gone"}

StatusOf(result) ==
  CASE result = "pass" -> "PASSED" [] result = "timeout" -> "TIMED_OUT"
    [] result \in Failures -> "FAILED"

\* Mutant of Recorded: what follows a failed command is not skipped.
RecordedAlone(r, command, result, rest) ==
  [n \in Steps |-> IF n = command.step THEN StatusOf(result) ELSE step[r][n]]

\* The step rows after a command: a failed one has those after it skipped, one
\* that timed out has not, and a profile without INSTALL skips it at the end.
Recorded(r, command, result, rest) ==
  LET later == {rest[i].step : i \in DOMAIN rest}
      skipped == IF result \in Failures THEN later
                 ELSE IF result = "pass" /\ rest = <<>> THEN {"INSTALL"} \ Planned ELSE {}
  IN  [n \in Steps |-> IF n = command.step THEN StatusOf(result)
                       ELSE IF n \in skipped THEN "SKIPPED" ELSE step[r][n]]

\* Mutant of NextAfter: a failed command does not end the validation.
NextAfterAnything(w, command, result) ==
  LET rest == Tail(handler[w].left) IN
  IF rest # <<>> THEN [handler[w] EXCEPT !.pc = "enter", !.left = rest]
  ELSE [handler[w] EXCEPT !.pc = "finish", !.verdict = Passed]

NextAfter(w, command, result) ==
  LET rest == Tail(handler[w].left) IN
  IF result # "pass"
  THEN [handler[w] EXCEPT !.pc = "finish", !.verdict = CommandVerdict(command, result)]
  ELSE IF rest # <<>> THEN [handler[w] EXCEPT !.pc = "enter", !.left = rest]
  ELSE [handler[w] EXCEPT !.pc = "finish", !.verdict = Passed]

\* The step row, then the test counts of the run's row.
Record(w) ==
  LET r == handler[w].run
      command == Head(handler[w].left)
      result == handler[w].seen[Len(handler[w].seen)].result
  IN
  /\ At(w, "record")
  /\ step' = [step EXCEPT ![r] = Recorded(r, command, result, Tail(handler[w].left))]
  /\ IF command.step = "TEST" /\ result # "timeout" THEN persistTestCounts(r)
     ELSE UNCHANGED run
  /\ Written(w, NextAfter(w, command, result))
  /\ OnlyRun /\ UNCHANGED evidence

\* finish() and failRun() inside the try block.  The counts are not theirs.
Finish(w) ==
  LET r == handler[w].run IN
  /\ At(w, "finish")
  /\ Transition(r, handler[w].current, [handler[w].verdict EXCEPT !.counted = run[r].counted])
  /\ evidence' = [evidence EXCEPT ![r] = handler[w].seen]
  /\ Written(w, [handler[w] EXCEPT !.pc = "cleanup"])
  /\ UNCHANGED step /\ OnlyRun

\* Mutant of Catch: whatever threw, the run is failed.
CatchAll(w) ==
  LET r == handler[w].run IN
  /\ At(w, "catch")
  /\ run' = [run EXCEPT ![r].status = "FAILED", ![r].outcome = "INFRA_FAILURE",
                        ![r].error = "SANDBOX_START_FAILED"]
  /\ To(w, "cleanup") /\ NoFault
  /\ UNCHANGED <<step, evidence>> /\ OnlyRun

\* The catch block reads the row and fails it, unless it is terminal; a call
\* of its own that fails leaves the row as it is.
Catch(w) ==
  LET r == handler[w].run IN
  /\ At(w, "catch")
  /\ \/ /\ IF run[r].status \in {"COMPLETED", "TIMED_OUT", "FAILED"} THEN UNCHANGED run
           ELSE Transition(r, run[r].status,
                           [run[r] EXCEPT !.status = "FAILED", !.outcome = "INFRA_FAILURE",
                                          !.error = "SANDBOX_START_FAILED"])
        /\ NoFault
     \/ UNCHANGED run /\ CallFault
  /\ To(w, "cleanup")
  /\ UNCHANGED <<step, evidence>> /\ OnlyRun

\* Mutant of Cleanup: the worker keeps its container.
CleanupKeeps(w) ==
  /\ At(w, "cleanup")
  /\ Settle(w, handler[w].failed) /\ NoFault /\ OnlyHandler

\* The finally block removes the container: it does, it fails to, which is only
\* noted in the step's row, or a database call of its own fails, whose error
\* takes the place of any other.
Cleanup(w) ==
  /\ At(w, "cleanup")
  /\ \/ Settle(w, handler[w].failed) /\ NoFault /\ Destroyed(w, TRUE)
     \/ Settle(w, handler[w].failed) /\ CallFault /\ Destroyed(w, FALSE)
     \/ Settle(w, TRUE) /\ CallFault /\ Destroyed(w, FALSE)
  /\ UNCHANGED <<dbVars, client, evidence>>

Handle(w) ==
  \/ Read(w) \/ Requeue(w) \/ Reread(w) \/ Start(w) \/ Reap(w) \/ Materialize(w)
  \/ Verify(w) \/ Select(w) \/ Prepare(w) \/ Enter(w) \/ Execute(w) \/ Record(w)
  \/ Finish(w) \/ Catch(w) \/ Cleanup(w)

-----------------------------------------------------------------------------
(* createForRevision                                                       *)

Ask(c, pc, r) == client' = [client EXCEPT ![c] = [pc |-> pc, rev |-> r]]

\* createQueued: the row, its first event and its pending steps in one transaction.
createQueued(r) ==
  /\ run' = [run EXCEPT ![r].status = "QUEUED"]
  /\ step' = [step EXCEPT ![r] = [n \in Steps |-> "PENDING"]]

\* The idempotency key is unique: a request that finds no run inserts one,
\* one that lost the race returns the other's without adding a job.
FindOrCreateRun(c, r) ==
  /\ client[c] = Free
  /\ \/ /\ run[r].status = "ABSENT"
        /\ createQueued(r)
     \/ /\ run[r].status \in {"QUEUED", "FAILED"}
        /\ UNCHANGED <<run, step>>
  /\ Ask(c, "enqueue", r)
  /\ UNCHANGED <<repo, entry, handler, hostVars, evidence>> /\ NoFault

\* A job whose id is known is not added again, unless it was forgotten.
Enqueue(c) ==
  LET r == client[c].rev IN
  /\ client[c].pc = "enqueue"
  /\ \/ /\ entry[r].state \in {"none", "done"}
        /\ entry' = [entry EXCEPT ![r].state = "waiting"]
     \/ entry[r].state # "none" /\ UNCHANGED entry
  /\ client' = [client EXCEPT ![c] = Free]
  /\ UNCHANGED <<dbVars, handler, hostVars, evidence>> /\ NoFault

\* compare(): the latest validations that were completed.  Those that timed
\* out count; those that failed, which alone are INFRA_FAILURE, do not.
latestCompleted(r) ==
  IF run[r].status \in {"COMPLETED", "TIMED_OUT"} THEN run[r].outcome ELSE "none"

Regression(original, generated) ==
  compareValidations(latestCompleted(original), latestCompleted(generated))

-----------------------------------------------------------------------------
Next ==
  \/ \E w \in Workers : Handle(w) \/ Refused(w) \/ Crash(w)
                        \/ \E r \in Revisions : Take(w, r)
  \/ \E r \in Revisions : Stalled(r)
  \/ DeploymentReaps
  \/ \E c \in Clients : Enqueue(c) \/ \E r \in Revisions : FindOrCreateRun(c, r)

Spec == Init /\ [][Next]_vars

\* The queue is first in, first out, so a job that keeps coming up as the one to
\* take is taken; a handler goes on, a dead worker's job is noticed, and a
\* request ends.
Fairness ==
  /\ \A w \in Workers : WF_vars(Handle(w))
  /\ \A r \in Revisions : WF_vars(Stalled(r)) /\ SF_vars(\E w \in Workers : Take(w, r))
  /\ \A c \in Clients : WF_vars(Enqueue(c))

FairSpec == Spec /\ Fairness

=============================================================================
