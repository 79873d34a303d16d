------------------------ MODULE ValidationProperties ------------------------
(* What a validation run promises.                                         *)
EXTENDS Validation

HandlerPcs == {"idle", "read", "requeue", "reread", "start", "reap", "materialize",
               "verify", "select", "prepare", "enter", "execute", "record", "finish",
               "catch", "cleanup"}
WithBox    == {"enter", "execute", "record", "finish", "catch", "cleanup"}

\* Every row, entry and handler stays within its type, a run is handled by one
\* handler at a time, and a container in use is that of a handler which has
\* prepared one and not yet cleaned up.
TypeOK ==
  /\ \A r \in Revisions :
       /\ run[r].status \in Statuses /\ run[r].outcome \in Outcomes
       /\ step[r] \in [Steps -> StepStatuses]
       /\ entry[r] \in [state : {"none", "waiting", "active", "done"},
                        attempts : 0 .. MaxAttempts - 1, stalls : 0 .. MaxStalls]
       /\ Cardinality({w \in Workers : handler[w].run = r}) <= 1
  /\ \A w \in Workers :
       /\ handler[w].pc \in HandlerPcs
       /\ handler[w].run # None => entry[handler[w].run].state = "active"
       /\ box[w] \in {"none", "up", "reaped"}
       /\ box[w] # "none" => handler[w].pc \in WithBox
  /\ \A c \in Clients : client[c].pc = "idle" <=> client[c].rev = None

Done(r) == run[r].status \in {"COMPLETED", "TIMED_OUT"}

\* The row a command of the profile must have in the end.
RowFor(r, n) ==
  LET seen == {evidence[r][i].result : i \in {j \in DOMAIN evidence[r] : evidence[r][j].step = n}}
  IN  CASE seen = {} -> "SKIPPED" [] seen = {"pass"} -> "PASSED" [] OTHER -> "FAILED"

\* A revision is PASSED only if one handler, after whatever crashes and
\* retries, saw every command of the profile pass, each in its turn; an
\* earlier delivery's commands count for nothing.
PassedIsEarned ==
  \A r \in Revisions :
    Done(r) /\ run[r].outcome = "PASSED" =>
      /\ Len(evidence[r]) = Len(Profile.commands)
      /\ \A i \in DOMAIN evidence[r] :
           evidence[r][i] = [step |-> Profile.commands[i].step, result |-> "pass"]
      /\ run[r].error = "none" /\ run[r].build = "PASSED" /\ run[r].test = "PASSED"

\* The step rows of a completed run tell the delivery that decided it, and no
\* row of an earlier one is left: which commands of the profile ran and how
\* they ended, and which did not run.  (Nothing is skipped when a command times
\* out: such a run may keep rows of an earlier delivery.)
RowsTellTheRun ==
  \A r \in Revisions :
    run[r].status = "COMPLETED" =>
      \A n \in Planned : step[r][n] = RowFor(r, n)

\* "Completed runs are reused. Historical results are immutable."
\* (docs/VALIDATION_ENGINE.md:11): neither a redelivery nor a retry nor a new
\* request changes a result, and a comparison once made is never revised.
ResultsStand ==
  [][/\ \A r \in Revisions : Done(r) => run'[r] = run[r]
     /\ \A o \in Originals, g \in Generated :
          Regression(o, g) # "NOT_COMPARED" => Regression(o, g)' = Regression(o, g)]_vars

\* A validation that waits in the queue gets a status of its own end, over a
\* crash at any point, unless a call failed and nobody takes it up again.
ValidationSettles ==
  \A r \in Revisions :
    entry[r].state = "waiting" ~> run[r].status \in {"COMPLETED", "TIMED_OUT", "FAILED"} \/ lost

\* The container of a worker that died is removed by the next handler that
\* starts: by the redelivery of the run itself, unless it has its verdict.
LeakIsReaped ==
  \A r \in Revisions :
    leaked /\ entry[r].state = "waiting" /\ ~ Done(r) /\ run[r].status # "FAILED"
      ~> ~ leaked \/ lost

\* What a delivery that died leaves behind is settled: its run and its container.
DeliveriesSettle == ValidationSettles /\ LeakIsReaped

\* "BUILD_FAILED / TEST_FAILED complete the run. They are repository results,
\* not platform crashes." (docs/VALIDATION_ENGINE.md:48)
BlamedOnTheRepository ==
  \A r \in Revisions :
    run[r].status = "COMPLETED" /\ run[r].error \in {"BUILD_FAILED", "TEST_FAILED"} =>
      evidence[r][Len(evidence[r])].result = "fail"

=============================================================================
