--------------------------- MODULE ChangeSetProofs ---------------------------
(***************************************************************************)
(* Proofs about the change set, for every set of clients and changes and   *)
(* every number of faults.  The inductive invariant is IInv: WorkInv says  *)
(* where the handler stands given the status, RollInv the same of a        *)
(* rollback, and ShipInv follows the accepted changes from the rows        *)
(* through the handler to the files.  CountInv, on top of it, follows how   *)
(* many changes were not taken, from the rows to the completeness.         *)
(***************************************************************************)
EXTENDS ChangeSetProperties, FiniteSetTheorems, TLAPS

USE DEF Statuses, RowStatuses, JobNames, Completeness

Entry     == {"check", "mismatch"}
Skipping  == {"skip", "skipTally", "skipCounts", "begin"}
Applying  == {"list", "snapshot", "tally", "create", "complete", "activate", "finish"}
Drafting  == {"requeue", "latest", "start", "current", "generating", "persist", "ready"}
Applied   == Applying \ {"list"}

WorkInv ==
  /\ worker.pc \in Entry =>
       /\ worker.seen = status
       /\ ~ Sealed
       /\ worker.job = "finalize" => status \in {"READY_FOR_REVIEW", "FINALIZING"}
       /\ worker.job = "generate" => status \in {"QUEUED", "MATERIALIZING", "GENERATING", "FAILED"}
  /\ worker.pc \in Skipping => worker.job = "finalize" /\ status = "READY_FOR_REVIEW"
  /\ worker.pc \in Applying => worker.job = "finalize" /\ status = "FINALIZING"
  /\ worker.pc \in Drafting =>
       /\ worker.job = "generate"
       /\ status \in {"QUEUED", "MATERIALIZING", "GENERATING", "FAILED"}
  /\ worker.pc = "materialize" =>
       status \in IF worker.job = "finalize" THEN {"FINALIZING"}
                  ELSE {"QUEUED", "MATERIALIZING", "GENERATING", "FAILED"}
  /\ worker.pc = "fail" /\ Sealed => worker.seen = "ROLLED_BACK"

RollInv ==
  /\ \A c \in Clients :
       /\ client[c].pc \in {"reselect", "withdraw"} => Sealed
       /\ client[c].pc = "withdraw" => active = "original"
  /\ status = "ROLLED_BACK" => active = "original"

ShipInv ==
  /\ With("ACCEPTED") \subseteq accepted
  /\ worker.pc \in Applied =>
       /\ worker.applied \subseteq accepted
       /\ ~ late => worker.applied = With("ACCEPTED")
  /\ worker.pc = "tally" /\ revision # None => artifact = worker.applied
  /\ worker.pc \in {"complete", "activate", "finish"} => artifact = worker.applied
  /\ Sealed => /\ artifact \subseteq accepted
               /\ ~ late => artifact = With("ACCEPTED")

IInv == TypeOK /\ WorkInv /\ RollInv /\ ShipInv

-----------------------------------------------------------------------------
(* Type correctness.  What the helper actions do to the handler, the jobs  *)
(* and the fault count is said once, in the lemmas.                        *)

WorkerOK ==
  /\ worker \in Workers
  /\ worker.pc = "idle" <=> worker.job = "none"
  /\ worker.pc \in {"create", "complete"} => worker.complete \in Completeness

StepOK == WorkerOK' /\ jobs' \in [JobNames -> Jobs] /\ faults' \in 0 .. MaxFaults

Busy == TypeOK /\ worker.pc # "idle"

\* refreshCounts counts within the number of changes.
LEMMA CountsType == ASSUME NEW r PROVE CountsOf(r) \in Counts
<1>1. IsFiniteSet(Changes) /\ Cardinality(Changes) \in Nat
  BY ChangeSetConstants, FS_CardinalityType
<1>2. ASSUME NEW s PROVE Cardinality({c \in Changes : r[c] = s}) \in 0 .. Cardinality(Changes)
  <2> DEFINE T == {c \in Changes : r[c] = s}
  <2>1. IsFiniteSet(T) /\ Cardinality(T) <= Cardinality(Changes)
    BY <1>1, FS_Subset
  <2>2. Cardinality(T) \in Nat
    BY <2>1, FS_CardinalityType
  <2> QED BY <1>1, <2>1, <2>2
<1> QED BY <1>2 DEF CountsOf, Counts

LEMMA NoCountsType == NoCounts \in Counts
<1>1. Cardinality(Changes) \in Nat
  BY ChangeSetConstants, FS_CardinalityType
<1> QED BY <1>1 DEF NoCounts, Counts

LEMMA IdleType == Idle \in Workers
BY NoCountsType DEF Idle, Workers, WorkerPcs

LEMMA FaultType == ASSUME TypeOK, Fault PROVE faults' \in 0 .. MaxFaults
BY ChangeSetConstants DEF TypeOK, Fault

\* Settle ends the handler and puts its job back or away.
LEMMA SettleEffect ==
  ASSUME Busy, NEW o, Settle(o)
  PROVE  worker' = Idle /\ WorkerOK' /\ jobs' \in [JobNames -> Jobs]
<1>1. worker.job \in JobNames /\ jobs[worker.job] \in Jobs
  BY DEF Busy, TypeOK, Workers
<1>2. jobs' \in [JobNames -> Jobs]
  <2>1. [NewJob EXCEPT !.state = "done"] \in Jobs
    BY DEF NewJob, Jobs, MaxAttempts, MaxStalls
  <2>2. ASSUME jobs[worker.job].attempts + 1 < MaxAttempts
        PROVE  [jobs[worker.job] EXCEPT !.state = "waiting",
                                        !.attempts = jobs[worker.job].attempts + 1] \in Jobs
    <3> DEFINE q == jobs[worker.job]
    <3>1. q \in Jobs /\ q.attempts \in 0 .. 2 /\ q.attempts + 1 < 3
      BY <1>1, <2>2 DEF Jobs, MaxAttempts
    <3>2. q.attempts + 1 \in 0 .. MaxAttempts - 1
      BY <3>1 DEF MaxAttempts
    <3> HIDE DEF q
    <3>3. [q EXCEPT !.state = "waiting", !.attempts = q.attempts + 1] \in Jobs
      BY <3>1, <3>2 DEF Jobs
    <3> QED BY <3>3 DEF q
  <2>3. jobs \in [JobNames -> Jobs]
    BY DEF Busy, TypeOK
  <2> QED BY <1>1, <2>1, <2>2, <2>3 DEF Settle
<1>3. worker' = Idle
  BY DEF Settle
<1>4. WorkerOK'
  BY <1>3, IdleType DEF WorkerOK, Idle
<1> QED BY <1>2, <1>3, <1>4

\* Throw ends the handler, or takes it from its try block to the catch block.
LEMMA ThrowEffect ==
  ASSUME Busy, NEW o \in {"retry", "stop"}, Throw(o)
  PROVE  /\ WorkerOK' /\ jobs' \in [JobNames -> Jobs]
         /\ worker' = Idle \/ worker'.pc = "catch"
<1>1. CASE worker.pc \in Guarded
  <2>1. worker' = [Idle EXCEPT !.job = worker.job, !.pc = "catch", !.outcome = o]
    BY <1>1 DEF Throw
  <2>2. worker.job \in JobNames
    BY DEF Busy, TypeOK, Workers
  <2>3. worker' \in Workers /\ worker'.pc = "catch" /\ worker'.job = worker.job
    BY <2>1, <2>2, IdleType DEF Idle, Workers, WorkerPcs, DatabaseCalls
  <2> QED BY <1>1, <2>2, <2>3 DEF WorkerOK, Throw, Busy, TypeOK
<1>2. CASE worker.pc \notin Guarded
  BY <1>2, SettleEffect DEF Throw
<1> QED BY <1>1, <1>2

LEMMA ToEffect ==
  ASSUME Busy, NEW pc \in WorkerPcs \ {"idle"}, To(pc),
         pc \in {"create", "complete"} => worker.complete \in Completeness
  PROVE  StepOK
BY DEF Busy, TypeOK, To, Goto, StepOK, WorkerOK, Workers

\* The handler goes on with what it has just read.
LEMMA GotoEffect ==
  ASSUME Busy, NEW w \in Workers, w.pc # "idle", w.job = worker.job, Goto(w),
         w.pc \in {"create", "complete"} => w.complete \in Completeness
  PROVE  StepOK
BY DEF StepOK, WorkerOK, Busy, TypeOK, Goto, Workers

LEMMA SeenEffect ==
  ASSUME Busy, NEW pc \in WorkerPcs \ {"idle", "create", "complete"},
         Goto([worker EXCEPT !.pc = pc, !.seen = status])
  PROVE  StepOK
<1> DEFINE w == [worker EXCEPT !.pc = pc, !.seen = status]
<1>1. worker \in Workers /\ status \in Statuses
  BY DEF Busy, TypeOK
<1>2. w \in Workers /\ w.pc = pc /\ w.job = worker.job
  BY <1>1 DEF Workers
<1> QED BY <1>2, GotoEffect

\* A write goes on, or fails after it was committed.
LEMMA WrittenEffect ==
  ASSUME Busy, NEW pc \in WorkerPcs \ {"idle"}, Written(pc),
         pc \in {"create", "complete"} => worker.complete \in Completeness
  PROVE  StepOK
BY ToEffect, ThrowEffect, FaultType DEF Written, StepOK, Busy

LEMMA WrittenLastEffect ==
  ASSUME Busy, NEW o, WrittenLast(o)
  PROVE  StepOK
BY SettleEffect, ThrowEffect, FaultType DEF WrittenLast, StepOK, Busy, TypeOK

\* What TypeOK says besides StepOK.
DataOK ==
  /\ status \in Statuses /\ rows \in [Changes -> RowStatuses]
  /\ counts \in Counts /\ completeness \in {"NONE"} \cup Completeness
  /\ revision \in {None} \cup Revisions /\ artifact \in SUBSET Changes
  /\ active \in {"original", "generated"}
  /\ late \in BOOLEAN /\ accepted \in SUBSET Changes
ClientOK(c) ==
  /\ client[c] \in Handlers
  /\ client[c].pc = "enqueue" => client[c].wish \in JobNames
  /\ client[c].pc = "decide" => client[c].change \in Changes
  /\ client[c].pc = "decide" => client[c].wish \in {"ACCEPTED", "REJECTED"}
ClientsOK == client = [c \in Clients |-> client[c]] /\ \A c \in Clients : ClientOK(c)

LEMMA TypeParts ==
  /\ TypeOK => DataOK /\ ClientsOK
  /\ StepOK /\ DataOK' /\ ClientsOK' => TypeOK'
BY DEF TypeOK, DataOK, ClientsOK, ClientOK, StepOK, WorkerOK

LEMMA OnlyWorkerType == ASSUME TypeOK, StepOK, OnlyWorker PROVE TypeOK'
BY TypeParts DEF OnlyWorker, dbVars, DataOK, ClientsOK, ClientOK

LEMMA OnlyStatusType ==
  ASSUME TypeOK, StepOK, OnlyStatus, status' \in Statuses
  PROVE  TypeOK'
BY TypeParts DEF OnlyStatus, DataOK, ClientsOK, ClientOK

LEMMA InitType == Init => TypeOK
<1> SUFFICES ASSUME Init PROVE TypeOK
  OBVIOUS
<1>1. Cardinality(Changes) \in Nat
  BY ChangeSetConstants, FS_CardinalityType
<1>2. NewJob \in Jobs
  BY DEF NewJob, Jobs, MaxAttempts, MaxStalls
<1>3. Free \in Handlers
  BY NoCountsType DEF Free, Handlers, ClientPcs
<1>4. jobs \in [JobNames -> Jobs] /\ client \in [Clients -> Handlers]
  BY <1>2, <1>3 DEF Init
<1>5. \A c \in Clients : client[c].pc = "idle"
  BY DEF Init, Free
<1>6. worker \in Workers /\ worker.pc = "idle" /\ worker.job = "none"
  BY IdleType DEF Init, Idle
<1>7. rows \in [Changes -> RowStatuses] /\ counts \in Counts
  BY NoCountsType DEF Init
<1>8. faults \in 0 .. MaxFaults
  BY ChangeSetConstants DEF Init
<1>9. /\ status \in Statuses /\ completeness \in {"NONE"} \cup Completeness
      /\ revision \in {None} \cup Revisions /\ artifact \in SUBSET Changes
      /\ active \in {"original", "generated"}
      /\ late \in BOOLEAN /\ accepted \in SUBSET Changes
  BY DEF Init
<1>10. worker.pc \notin {"create", "complete"}
  BY <1>6
<1> HIDE DEF Statuses, RowStatuses, Completeness, JobNames
<1> QED BY <1>4, <1>5, <1>6, <1>7, <1>8, <1>9, <1>10 DEF TypeOK

\* Each step of the handler keeps the type.
LEMMA HandlerType == ASSUME TypeOK, Handler PROVE TypeOK'
<1> USE DEF Busy, WorkerPcs, DatabaseCalls
<1>1. CASE Read
  <2>1. worker.pc # "idle" /\ OnlyWorker
    BY <1>1 DEF Read
  <2>2. ASSUME NEW o, Settle(o), UNCHANGED faults PROVE StepOK
    BY <2>1, <2>2, SettleEffect DEF StepOK, TypeOK
  <2>3. ASSUME Goto([worker EXCEPT !.pc = "check", !.seen = status]) PROVE StepOK
    BY <2>1, <2>3, SeenEffect
  <2> QED BY <1>1, <2>1, <2>2, <2>3, OnlyWorkerType DEF Read
<1>2. CASE Check
  <2>1. worker.pc # "idle" /\ OnlyWorker
    BY <1>2 DEF Check
  <2>2. ASSUME Fault, worker' = [worker EXCEPT !.pc = "mismatch"], UNCHANGED jobs PROVE StepOK
    BY <2>1, <2>2, FaultType DEF TypeOK, Workers, StepOK, WorkerOK
  <2>3. ASSUME NEW pc \in {"requeue", "latest", "skip", "materialize"}, Enter(pc) PROVE StepOK
    <3>1. worker' = [Idle EXCEPT !.job = worker.job, !.pc = pc]
      BY <2>3 DEF Enter, Goto
    <3>2. worker.job \in JobNames
      BY <2>1 DEF TypeOK, Workers
    <3>3. worker' \in Workers /\ worker'.pc = pc /\ worker'.job = worker.job
      BY <3>1, <3>2, IdleType DEF Idle, Workers
    <3> QED BY <2>3, <3>2, <3>3 DEF Enter, Goto, StepOK, WorkerOK, TypeOK
  <2> QED BY <1>2, <2>1, <2>2, <2>3, OnlyWorkerType DEF Check
<1>3. CASE Mismatch
  <2>1. worker.pc # "idle" /\ OnlyStatus
    BY <1>3 DEF Mismatch
  <2>2. CASE Transition(worker.seen, "FAILED") /\ WrittenLast("stop")
    BY <2>1, <2>2, WrittenLastEffect, OnlyStatusType DEF Transition
  <2>3. CASE Settle("retry") /\ UNCHANGED <<status, faults>>
    <3>1. StepOK
      BY <2>1, <2>3, SettleEffect DEF StepOK, TypeOK
    <3> QED BY <2>1, <2>3, <3>1, OnlyStatusType DEF TypeOK
  <2> QED BY <1>3, <2>2, <2>3 DEF Mismatch
<1>4. CASE Materialize
  <2>1. worker.pc # "idle" /\ OnlyWorker
    BY <1>4 DEF Materialize
  <2>2. ASSUME NEW pc \in {"current", "list"}, To(pc) PROVE StepOK
    BY <2>1, <2>2, ToEffect
  <2>3. ASSUME Fault, Settle("retry") PROVE StepOK
    BY <2>1, <2>3, SettleEffect, FaultType DEF StepOK
  <2>4. ASSUME NEW o \in {"retry", "stop"}, Fault, Throw(o) PROVE StepOK
    BY <2>1, <2>4, ThrowEffect, FaultType DEF StepOK
  <2> QED BY <1>4, <2>1, <2>2, <2>3, <2>4, OnlyWorkerType DEF Materialize
<1>5. CASE Requeue
  BY <1>5, WrittenEffect, OnlyStatusType DEF Requeue, At, Transition
<1>6. CASE Start
  BY <1>6, WrittenEffect, OnlyStatusType DEF Start, At, Transition
<1>7. CASE Generating
  BY <1>7, WrittenEffect, OnlyStatusType DEF Generating, At, Transition
<1>8. CASE Begin
  BY <1>8, WrittenEffect, OnlyStatusType DEF Begin, At, Transition
<1>9. CASE Ready
  BY <1>9, WrittenLastEffect, OnlyStatusType DEF Ready, At, Transition
<1>10. CASE Finish
  BY <1>10, WrittenLastEffect, OnlyStatusType DEF Finish, At, Transition
<1>11. CASE Latest
  BY <1>11, ToEffect, OnlyWorkerType DEF Latest, At
<1>12. CASE Current
  BY <1>12, ToEffect, OnlyWorkerType DEF Current, At
<1>13. CASE PersistGenerated
  <2>1. StepOK
    BY <1>13, WrittenEffect DEF PersistGenerated, At
  <2>2. PICK skipped \in SUBSET Changes :
          /\ rows' = [c \in Changes |-> IF c \in skipped THEN "SKIPPED" ELSE "PROPOSED"]
          /\ counts' = CountsOf([c \in Changes |-> IF c \in skipped THEN "SKIPPED" ELSE "PROPOSED"])
    BY <1>13 DEF PersistGenerated
  <2>3. counts' \in Counts /\ rows' \in [Changes -> RowStatuses]
    BY <2>2, CountsType
  <2>4. ClientsOK'
    <3>1. Free \in Handlers /\ Free.pc = "idle"
      BY NoCountsType DEF Free, Handlers, ClientPcs
    <3> QED BY <1>13, <3>1 DEF PersistGenerated, WithoutDecisions, ClientsOK, ClientOK, TypeOK
  <2> QED BY <1>13, <2>1, <2>3, <2>4, TypeParts DEF PersistGenerated, DataOK
<1>14. CASE SkipRemainingProposed
  <2>1. StepOK
    BY <1>14, WrittenEffect DEF SkipRemainingProposed, At
  <2>2. rows' \in [Changes -> RowStatuses]
    BY <1>14 DEF SkipRemainingProposed, TypeOK
  <2> QED BY <1>14, <2>1, <2>2, TypeParts DEF SkipRemainingProposed, DataOK, ClientsOK, ClientOK
<1>15. CASE SkipTally
  <2>1. StepOK
    BY <1>15, CountsType DEF SkipTally, At, Goto, StepOK, WorkerOK, TypeOK, Workers
  <2> QED BY <1>15, <2>1, OnlyWorkerType DEF SkipTally
<1>16. CASE SkipCounts
  <2>1. worker.pc # "idle"
    BY <1>16 DEF SkipCounts, At
  <2>2. ASSUME Goto([worker EXCEPT !.pc = "begin", !.tally = NoCounts]) PROVE StepOK
    BY <2>1, <2>2, NoCountsType DEF Goto, StepOK, WorkerOK, TypeOK, Workers
  <2>3. ASSUME Fault, Throw("retry") PROVE StepOK
    BY <2>1, <2>3, ThrowEffect, FaultType DEF StepOK
  <2>4. StepOK
    BY <1>16, <2>2, <2>3 DEF SkipCounts
  <2>5. counts' \in Counts
    BY <1>16 DEF SkipCounts, TypeOK, Workers
  <2> QED BY <1>16, <2>4, <2>5, TypeParts DEF SkipCounts, DataOK, ClientsOK, ClientOK
<1>17. CASE ListAccepted
  <2>1. worker.pc # "idle" /\ OnlyWorker
    BY <1>17 DEF ListAccepted, At
  <2>2. ASSUME Goto([worker EXCEPT !.pc = "snapshot", !.applied = With("ACCEPTED")]) PROVE StepOK
    BY <2>1, <2>2 DEF Goto, StepOK, WorkerOK, TypeOK, Workers, With
  <2>3. ASSUME Fault, Throw("retry") PROVE StepOK
    BY <2>1, <2>3, ThrowEffect, FaultType DEF StepOK
  <2> QED BY <1>17, <2>1, <2>2, <2>3, OnlyWorkerType DEF ListAccepted
<1>18. CASE Snapshot
  <2>1. StepOK
    BY <1>18, ToEffect DEF Snapshot, At
  <2>2. artifact' \in SUBSET Changes
    BY <1>18 DEF Snapshot, TypeOK, Workers
  <2> QED BY <1>18, <2>1, <2>2, TypeParts DEF Snapshot, DataOK, ClientsOK, ClientOK
<1>19. CASE Tally
  <2>1. StepOK
    <3>1. PICK c \in Completeness, pc \in {"create", "complete"} :
            Goto([worker EXCEPT !.complete = c, !.pc = pc])
      BY <1>19 DEF Tally
    <3> DEFINE w == [worker EXCEPT !.complete = c, !.pc = pc]
    <3>2. worker \in Workers /\ worker.pc # "idle"
      BY <1>19 DEF Tally, At, TypeOK
    <3>3. pc \in WorkerPcs /\ pc # "idle"
      OBVIOUS
    <3> HIDE DEF Statuses, JobNames, WorkerPcs, Completeness
    <3>4. w \in Workers /\ w.pc = pc /\ w.job = worker.job /\ w.complete = c
      BY <3>2, <3>3 DEF Workers
    <3> HIDE DEF w
    <3> QED BY <3>1, <3>2, <3>3, <3>4, GotoEffect DEF w
  <2> QED BY <1>19, <2>1, OnlyWorkerType DEF Tally
<1>20. CASE CreateGeneratedRevision
  <2>1. StepOK
    BY <1>20, WrittenEffect DEF CreateGeneratedRevision, At, TypeOK
  <2>2. revision' \in Revisions /\ artifact' \in SUBSET Changes
    BY <1>20 DEF CreateGeneratedRevision, At, TypeOK, Workers, Revisions
  <2> QED BY <1>20, <2>1, <2>2, TypeParts
          DEF CreateGeneratedRevision, DataOK, ClientsOK, ClientOK
<1>21. CASE SetCompleteness
  <2>1. StepOK
    BY <1>21, WrittenEffect DEF SetCompleteness, At
  <2>2. completeness' \in Completeness
    BY <1>21 DEF SetCompleteness, At, TypeOK
  <2> QED BY <1>21, <2>1, <2>2, TypeParts DEF SetCompleteness, DataOK, ClientsOK, ClientOK
<1>22. CASE SetActiveRevision
  <2>1. StepOK
    BY <1>22, WrittenEffect DEF SetActiveRevision, At
  <2> QED BY <1>22, <2>1, TypeParts DEF SetActiveRevision, DataOK, ClientsOK, ClientOK
<1>23. CASE Catch
  <2>1. worker.pc # "idle" /\ OnlyWorker
    BY <1>23 DEF Catch
  <2>2. ASSUME Goto([worker EXCEPT !.pc = "fail", !.seen = status]) PROVE StepOK
    BY <2>1, <2>2, SeenEffect
  <2>3. ASSUME NEW o, Settle(o), UNCHANGED faults PROVE StepOK
    BY <2>1, <2>3, SettleEffect DEF StepOK, TypeOK
  <2> QED BY <1>23, <2>1, <2>2, <2>3, OnlyWorkerType DEF Catch
<1>24. CASE Fail
  <2>1. worker.pc # "idle" /\ OnlyStatus
    BY <1>24 DEF Fail
  <2>2. CASE Transition(worker.seen, "FAILED") /\ WrittenLast(worker.outcome)
    BY <2>1, <2>2, WrittenLastEffect, OnlyStatusType DEF Transition
  <2>3. CASE Settle("retry") /\ UNCHANGED <<status, faults>>
    <3>1. StepOK
      BY <2>1, <2>3, SettleEffect DEF StepOK, TypeOK
    <3> QED BY <2>1, <2>3, <3>1, OnlyStatusType DEF TypeOK
  <2> QED BY <1>24, <2>2, <2>3 DEF Fail
<1> QED BY <1>1, <1>2, <1>3, <1>4, <1>5, <1>6, <1>7, <1>8, <1>9, <1>10, <1>11, <1>12, <1>13, <1>14, <1>15, <1>16, <1>17, <1>18, <1>19, <1>20, <1>21, <1>22, <1>23, <1>24 DEF Handler

\* Each step of an API handler keeps the type.
LEMMA ClientType == ASSUME TypeOK, NEW k \in Clients, Client(k) PROVE TypeOK'
<1>1. /\ Free \in Handlers /\ Free.pc = "idle"
      /\ [Free EXCEPT !.pc = "tally"] \in Handlers
      /\ [Free EXCEPT !.pc = "tally"].pc = "tally"
  BY NoCountsType DEF Free, Handlers, ClientPcs
<1>2. ASSUME NEW r \in Handlers, client' = [client EXCEPT ![k] = r],
             r.pc = "enqueue" => r.wish \in JobNames,
             r.pc = "decide" => r.change \in Changes /\ r.wish \in {"ACCEPTED", "REJECTED"}
      PROVE  ClientsOK'
  BY <1>2 DEF TypeOK, ClientsOK, ClientOK
<1>3. ASSUME UNCHANGED <<worker, jobs, faults>> PROVE StepOK
  BY <1>3 DEF TypeOK, StepOK, WorkerOK
<1>4. client[k] \in Handlers
  BY DEF TypeOK
<1>5. ASSUME OnlyClient, ClientsOK' PROVE TypeOK'
  BY <1>3, <1>5, TypeParts DEF OnlyClient, dbVars, histVars, DataOK
<1>6. ASSUME NEW j \in JobNames, Request(k, j) PROVE TypeOK'
  <2>1. [client[k] EXCEPT !.pc = "enqueue", !.wish = j] \in Handlers
    BY <1>4 DEF Handlers, ClientPcs
  <2> QED BY <1>2, <1>4, <1>5, <1>6, <2>1 DEF Request, Handlers
<1>7. CASE EnqueueJob(k)
  <2>1. jobs' \in [JobNames -> Jobs]
    BY <1>7 DEF EnqueueJob, Add, TypeOK, Jobs
  <2>2. StepOK
    BY <1>7, <2>1 DEF EnqueueJob, histVars, TypeOK, StepOK, WorkerOK
  <2> QED BY <1>1, <1>2, <1>7, <2>2, TypeParts DEF EnqueueJob, dbVars, histVars, DataOK
<1>8. ASSUME NEW ch \in Changes, NEW v \in {"ACCEPTED", "REJECTED"}, Decide(k, ch, v)
      PROVE  TypeOK'
  <2>1. [client[k] EXCEPT !.pc = "decide", !.change = ch, !.wish = v] \in Handlers
    BY <1>4 DEF Handlers, ClientPcs
  <2> QED BY <1>2, <1>4, <1>5, <1>8, <2>1 DEF Decide, Handlers
<1>9. CASE SetChangeStatus(k)
  <2>1. rows' \in [Changes -> RowStatuses] /\ accepted' \in SUBSET Changes /\ late' \in BOOLEAN
    BY <1>9 DEF SetChangeStatus, TypeOK
  <2>2. ClientsOK'
    BY <1>1, <1>2, <1>9 DEF SetChangeStatus
  <2> QED BY <1>3, <1>9, <2>1, <2>2, TypeParts DEF SetChangeStatus, DataOK
<1>10. CASE AcceptAll(k)
  <2>1. [client[k] EXCEPT !.pc = "acceptAll"] \in Handlers
    BY <1>4 DEF Handlers, ClientPcs
  <2> QED BY <1>2, <1>4, <1>5, <1>10, <2>1 DEF AcceptAll, Handlers
<1>11. CASE AcceptAllProposed(k)
  <2>1. rows' \in [Changes -> RowStatuses] /\ accepted' \in SUBSET Changes /\ late' \in BOOLEAN
    BY <1>11 DEF AcceptAllProposed, TypeOK, With
  <2>2. ClientsOK'
    BY <1>1, <1>2, <1>11 DEF AcceptAllProposed
  <2> QED BY <1>3, <1>11, <2>1, <2>2, TypeParts DEF AcceptAllProposed, DataOK
<1>12. CASE ReadCounts(k)
  <2>1. [client[k] EXCEPT !.pc = "counts", !.tally = CountsOf(rows)] \in Handlers
    BY <1>4, CountsType DEF Handlers, ClientPcs
  <2> QED BY <1>2, <1>4, <1>5, <1>12, <2>1 DEF ReadCounts, Handlers
<1>13. CASE WriteCounts(k)
  <2>1. counts' \in Counts /\ late' \in BOOLEAN
    BY <1>4, <1>13 DEF WriteCounts, Handlers, TypeOK
  <2>2. ClientsOK'
    BY <1>1, <1>2, <1>13 DEF WriteCounts
  <2> QED BY <1>3, <1>13, <2>1, <2>2, TypeParts DEF WriteCounts, DataOK
<1>14. CASE Rollback(k)
  <2>1. [client[k] EXCEPT !.pc = "reselect"] \in Handlers
    BY <1>4 DEF Handlers, ClientPcs
  <2> QED BY <1>2, <1>4, <1>5, <1>14, <2>1 DEF Rollback, Handlers
<1>15. CASE Reselect(k)
  <2>1. [client[k] EXCEPT !.pc = "withdraw"] \in Handlers
    BY <1>4 DEF Handlers, ClientPcs
  <2>2. ClientsOK'
    BY <1>2, <1>4, <1>15, <2>1 DEF Reselect, Handlers
  <2> QED BY <1>3, <1>15, <2>2, TypeParts DEF Reselect, histVars, DataOK
<1>16. CASE Withdraw(k)
  <2>1. ClientsOK'
    BY <1>1, <1>2, <1>16 DEF Withdraw
  <2> QED BY <1>3, <1>16, <2>1, TypeParts DEF Withdraw, Transition, histVars, DataOK
<1>17. CASE Abandon(k)
  <2>1. ClientsOK'
    BY <1>1, <1>2, <1>17 DEF Abandon
  <2>2. StepOK
    BY <1>17, FaultType DEF Abandon, StepOK, WorkerOK, TypeOK
  <2> QED BY <1>17, <2>1, <2>2, TypeParts DEF Abandon, dbVars, DataOK
<1> QED BY <1>6, <1>7, <1>8, <1>9, <1>10, <1>11, <1>12, <1>13, <1>14, <1>15, <1>16, <1>17
        DEF Client

\* Every step keeps the type.
LEMMA StepType == ASSUME TypeOK, Next PROVE TypeOK'
<1>1. ASSUME NEW j \in JobNames, Take(j) PROVE TypeOK'
  <2>1. jobs' \in [JobNames -> Jobs]
    BY <1>1 DEF Take, TypeOK, Jobs
  <2>2. worker' \in Workers /\ worker'.pc = "read" /\ worker'.job = j
    BY <1>1, IdleType DEF Take, Idle, Workers, WorkerPcs, DatabaseCalls
  <2>3. StepOK
    BY <1>1, <2>1, <2>2 DEF Take, StepOK, WorkerOK, TypeOK, histVars
  <2> QED BY <1>1, <2>3, TypeParts DEF Take, dbVars, histVars, DataOK, ClientsOK, ClientOK
<1>2. ASSUME NEW j \in JobNames, Stalled(j) \/ Evict(j) PROVE TypeOK'
  <2>1. NewJob \in Jobs /\ [NewJob EXCEPT !.state = "done"] \in Jobs
    BY DEF NewJob, Jobs, MaxAttempts, MaxStalls
  <2>2. ASSUME jobs[j].stalls < MaxStalls
        PROVE  [jobs[j] EXCEPT !.state = "waiting", !.stalls = jobs[j].stalls + 1] \in Jobs
    <3> DEFINE q == jobs[j]
    <3>1. q \in Jobs /\ q.stalls + 1 \in 0 .. MaxStalls
      BY <2>2 DEF Jobs, MaxStalls, TypeOK
    <3> HIDE DEF q
    <3>2. [q EXCEPT !.state = "waiting", !.stalls = q.stalls + 1] \in Jobs
      BY <3>1 DEF Jobs
    <3> QED BY <3>2 DEF q
  <2>3. jobs' \in [JobNames -> Jobs]
    BY <1>2, <2>1, <2>2 DEF Stalled, Evict, TypeOK
  <2>4. StepOK
    BY <1>2, <2>3 DEF Stalled, Evict, StepOK, WorkerOK, TypeOK, histVars
  <2> QED BY <1>2, <2>4, TypeParts
          DEF Stalled, Evict, dbVars, histVars, DataOK, ClientsOK, ClientOK
<1>3. CASE Crash
  <2>1. StepOK
    BY <1>3, IdleType, FaultType DEF Crash, StepOK, WorkerOK, TypeOK, Idle
  <2> QED BY <1>3, <2>1, TypeParts DEF Crash, dbVars, DataOK, ClientsOK, ClientOK
<1>4. CASE Refused
  <2>1. StepOK
    BY <1>4, ThrowEffect, FaultType DEF Refused, DatabaseCalls, StepOK, Busy
  <2> QED BY <1>4, <2>1, OnlyWorkerType DEF Refused, OnlyWorker
<1> QED BY <1>1, <1>2, <1>3, <1>4, HandlerType, ClientType DEF Next

\* TypeOK holds in every reachable state.
THEOREM ChangeSetTypeCorrect == Spec => []TypeOK
<1>1. TypeOK /\ UNCHANGED vars => TypeOK'
  BY DEF vars, dbVars, histVars, TypeOK
<1> QED BY InitType, StepType, <1>1, PTL DEF Spec

-----------------------------------------------------------------------------
(* The invariants.                                                         *)

\* Where the program counter goes: Throw and Settle leave the work of the try
\* block, for "catch" or for "idle".
LEMMA ThrowPc ==
  ASSUME Busy, NEW o \in {"retry", "stop"}, Throw(o)
  PROVE  worker'.pc \in {"idle", "catch"}
BY ThrowEffect DEF Idle

LEMMA SettlePc == ASSUME NEW o, Settle(o) PROVE worker'.pc = "idle"
BY DEF Settle, Idle

LEMMA ToPc ==
  ASSUME Busy, NEW pc, To(pc)
  PROVE  worker' = [worker EXCEPT !.pc = pc] /\ worker'.pc = pc /\ worker'.job = worker.job
         /\ worker'.applied = worker.applied /\ worker'.seen = worker.seen
BY DEF To, Goto, Busy, TypeOK, Workers

LEMMA WrittenPc ==
  ASSUME Busy, NEW pc, Written(pc)
  PROVE  \/ worker'.pc \in {"idle", "catch"}
         \/ /\ worker'.pc = pc /\ worker'.job = worker.job
            /\ worker'.applied = worker.applied
BY ThrowPc, ToPc DEF Written

LEMMA WrittenLastPc ==
  ASSUME Busy, NEW o, WrittenLast(o) PROVE worker'.pc \in {"idle", "catch"}
BY ThrowPc, SettlePc DEF WrittenLast

\* Between "read" and the end of its try block a handler's pc is one of these.
Working == Entry \cup Skipping \cup Applying \cup Drafting \cup {"materialize"}

\* A handler at rest, or in its catch block, satisfies WorkInv and the part of
\* ShipInv about it.
LEMMA RestInv ==
  ASSUME worker.pc \in {"idle", "catch", "read"} PROVE WorkInv
BY DEF WorkInv, Entry, Skipping, Applying, Drafting

\* While it works, the change set is not sealed.
LEMMA WorkingNotSealed == ASSUME TypeOK, WorkInv, worker.pc \in Working PROVE ~ Sealed
BY DEF TypeOK, Workers, WorkInv, Working, Entry, Skipping, Applying, Drafting, Sealed

\* Each step of the handler keeps WorkInv.
LEMMA HandlerWork == ASSUME TypeOK, WorkInv, Handler PROVE WorkInv'
<1> USE DEF Busy, Entry, Skipping, Applying, Drafting
<1>r. ASSUME worker'.pc \in {"idle", "catch", "read"} PROVE WorkInv'
  BY <1>r DEF WorkInv
<1>1. CASE Read
  <2>1. ASSUME NEW o, Settle(o) PROVE WorkInv'
    BY <1>r, <2>1, SettlePc
  <2>2. ASSUME ~ NothingToDo, Eligible, Goto([worker EXCEPT !.pc = "check", !.seen = status])
        PROVE  WorkInv'
    <3>1. worker'.pc = "check" /\ worker'.seen = status /\ worker'.job = worker.job
      BY <2>2 DEF Goto, TypeOK, Workers
    <3>2. status' = status /\ ~ Sealed
      BY <1>1, <2>2 DEF Read, OnlyWorker, dbVars, NothingToDo, Sealed
    <3>3. worker.job \in JobNames
      BY <1>1 DEF Read, TypeOK, Workers
    <3> QED BY <2>2, <3>1, <3>2, <3>3 DEF WorkInv, NothingToDo, Eligible, Sealed, TypeOK
  <2> QED BY <1>1, <2>1, <2>2 DEF Read
<1>2. CASE Check
  <2>1. status' = status /\ worker.job \in JobNames
    BY <1>2 DEF Check, OnlyWorker, dbVars, TypeOK, Workers
  <2>2. ASSUME worker' = [worker EXCEPT !.pc = "mismatch"] PROVE WorkInv'
    <3>1. worker'.pc = "mismatch" /\ worker'.seen = worker.seen /\ worker'.job = worker.job
      BY <2>2 DEF TypeOK, Workers
    <3> QED BY <1>2, <2>1, <3>1 DEF Check, WorkInv, Sealed
  <2>3. ASSUME NEW pc \in {"requeue", "latest", "skip", "materialize"}, Enter(pc)
        PROVE  worker'.pc = pc /\ worker'.job = worker.job
    BY <2>3 DEF Enter, Goto, Idle
  <2>4. CASE worker.job = "generate" /\ Enter(IF worker.seen = "FAILED" THEN "requeue" ELSE "latest")
    BY <1>2, <2>1, <2>3, <2>4 DEF Check, WorkInv
  <2>5. CASE worker.job = "finalize"
             /\ Enter(IF worker.seen = "READY_FOR_REVIEW" THEN "skip" ELSE "materialize")
    BY <1>2, <2>1, <2>3, <2>5 DEF Check, WorkInv
  <2> QED BY <1>2, <2>2, <2>4, <2>5 DEF Check
<1>3. CASE Mismatch
  BY <1>3, <1>r, WrittenLastPc, SettlePc DEF Mismatch
<1>4. CASE Materialize
  <2>1. status' = status /\ worker.job \in JobNames
    BY <1>4 DEF Materialize, OnlyWorker, dbVars, TypeOK, Workers
  <2>2. ASSUME To(IF worker.job = "generate" THEN "current" ELSE "list") PROVE WorkInv'
    BY <1>4, <2>1, <2>2, ToPc DEF Materialize, WorkInv
  <2> QED BY <1>4, <1>r, <2>2, ThrowPc, SettlePc DEF Materialize
<1>5. CASE Requeue
  BY <1>5, <1>r, WrittenPc DEF Requeue, At, Transition, WorkInv
<1>6. CASE Latest
  BY <1>6, ToPc DEF Latest, At, WorkInv, OnlyWorker, dbVars
<1>7. CASE Start
  BY <1>7, <1>r, WrittenPc DEF Start, At, Transition, WorkInv
<1>8. CASE Current
  BY <1>8, ToPc DEF Current, At, WorkInv, OnlyWorker, dbVars
<1>9. CASE Generating
  BY <1>9, <1>r, WrittenPc DEF Generating, At, Transition, WorkInv
<1>10. CASE PersistGenerated
  BY <1>10, <1>r, WrittenPc DEF PersistGenerated, At, WorkInv
<1>11. CASE Ready \/ Finish
  BY <1>11, <1>r, WrittenLastPc DEF Ready, Finish, At
<1>12. CASE SkipRemainingProposed
  BY <1>12, <1>r, WrittenPc DEF SkipRemainingProposed, At, WorkInv
<1>13. CASE SkipTally
  <2>1. worker'.pc = "skipCounts" /\ worker'.job = worker.job
    BY <1>13 DEF SkipTally, At, Goto, TypeOK, Workers
  <2> QED BY <1>13, <2>1 DEF SkipTally, At, WorkInv, OnlyWorker, dbVars
<1>14. CASE SkipCounts
  <2>1. \/ worker'.pc \in {"idle", "catch"}
        \/ worker'.pc = "begin" /\ worker'.job = worker.job
    BY <1>14, ThrowPc DEF SkipCounts, At, Goto, TypeOK, Workers
  <2> QED BY <1>14, <1>r, <2>1 DEF SkipCounts, At, WorkInv
<1>15. CASE Begin
  BY <1>15, <1>r, WrittenPc DEF Begin, At, Transition, WorkInv
<1>16. CASE ListAccepted
  <2>1. \/ worker'.pc \in {"idle", "catch"}
        \/ worker'.pc = "snapshot" /\ worker'.job = worker.job
    BY <1>16, ThrowPc DEF ListAccepted, At, Goto, TypeOK, Workers
  <2> QED BY <1>16, <1>r, <2>1 DEF ListAccepted, At, WorkInv, OnlyWorker, dbVars
<1>17. CASE Snapshot
  BY <1>17, ToPc DEF Snapshot, At, WorkInv
<1>18. CASE Tally
  <2>1. worker'.pc \in {"create", "complete"} /\ worker'.job = worker.job
    BY <1>18 DEF Tally, At, Goto, TypeOK, Workers
  <2> QED BY <1>18, <2>1 DEF Tally, At, WorkInv, OnlyWorker, dbVars
<1>19. CASE CreateGeneratedRevision
  BY <1>19, <1>r, WrittenPc DEF CreateGeneratedRevision, At, WorkInv
<1>20. CASE SetCompleteness
  BY <1>20, <1>r, WrittenPc DEF SetCompleteness, At, WorkInv
<1>21. CASE SetActiveRevision
  BY <1>21, <1>r, WrittenPc DEF SetActiveRevision, At, WorkInv
<1>22. CASE Catch
  <2>1. ASSUME Goto([worker EXCEPT !.pc = "fail", !.seen = status]), Reported PROVE WorkInv'
    <3>1. worker'.pc = "fail" /\ worker'.seen = status /\ status' = status
      BY <1>22, <2>1 DEF Catch, Goto, TypeOK, Workers, OnlyWorker, dbVars
    <3>2. Sealed => status = "ROLLED_BACK"
      BY <2>1 DEF Reported, Sealed
    <3> QED BY <3>1, <3>2 DEF WorkInv, Sealed
  <2> QED BY <1>22, <1>r, <2>1, SettlePc DEF Catch
<1>23. CASE Fail
  BY <1>23, <1>r, WrittenLastPc, SettlePc DEF Fail
<1> QED BY <1>1, <1>2, <1>3, <1>4, <1>5, <1>6, <1>7, <1>8, <1>9, <1>10, <1>11, <1>12, <1>13,
           <1>14, <1>15, <1>16, <1>17, <1>18, <1>19, <1>20, <1>21, <1>22, <1>23 DEF Handler

\* The queue and the faults.
Queue == \/ \E j \in JobNames : Take(j) \/ Stalled(j) \/ Evict(j)
         \/ Crash \/ Refused

LEMMA QueueEffect ==
  ASSUME TypeOK, Queue
  PROVE  /\ UNCHANGED <<dbVars, client, late, accepted>>
         /\ worker' = worker \/ worker'.pc \in {"idle", "catch", "read"}
<1>1. ASSUME NEW j \in JobNames, Take(j) PROVE worker'.pc = "read"
  BY <1>1 DEF Take, Idle
<1>2. CASE Refused
  BY <1>2, ThrowPc DEF Refused, Busy, DatabaseCalls
<1>3. CASE Crash
  BY <1>3 DEF Crash, Idle
<1> QED BY <1>1, <1>2, <1>3 DEF Queue, Take, Stalled, Evict, Crash, Refused, histVars

\* An API handler moves the status only from FINALIZED to ROLLED_BACK.
LEMMA ClientEffect ==
  ASSUME TypeOK, RollInv, NEW k \in Clients, Client(k)
  PROVE  /\ UNCHANGED <<worker, artifact, revision, completeness>>
         /\ status' = status \/ (Sealed /\ status' = "ROLLED_BACK")
BY DEF Client, Request, EnqueueJob, Decide, SetChangeStatus, AcceptAll, AcceptAllProposed,
       ReadCounts, WriteCounts, Rollback, Reselect, Withdraw, Abandon, Transition, OnlyClient,
       dbVars, histVars, RollInv

\* Every step keeps WorkInv.
LEMMA StepWork == ASSUME TypeOK, WorkInv, RollInv, Next PROVE WorkInv'
<1>1. CASE Handler
  BY <1>1, HandlerWork
<1>2. CASE Queue
  <2>1. UNCHANGED status
    BY <1>2, QueueEffect DEF dbVars
  <2> QED BY <1>2, <2>1, QueueEffect
          DEF WorkInv, Entry, Skipping, Applying, Drafting, Sealed
<1>3. ASSUME NEW k \in Clients, Client(k) PROVE WorkInv'
  <2>1. UNCHANGED worker /\ (status' = status \/ (Sealed /\ status' = "ROLLED_BACK"))
    BY <1>3, ClientEffect
  <2>2. CASE status' = status
    BY <2>1, <2>2 DEF WorkInv, Sealed
  <2>3. CASE Sealed /\ status' = "ROLLED_BACK"
    <3>1. worker.pc \notin Working
      BY <2>3, WorkingNotSealed
    <3> QED BY <2>1, <2>3, <3>1 DEF WorkInv, Working, Entry, Skipping, Applying, Drafting, Sealed
  <2> QED BY <2>1, <2>2, <2>3
<1> QED BY <1>1, <1>2, <1>3 DEF Next, Queue

\* A handler does nothing to a sealed change set.
LEMMA HandlerSealed ==
  ASSUME TypeOK, WorkInv, Handler, Sealed
  PROVE  UNCHANGED <<status, rows, artifact, revision, completeness, active, late, accepted>>
<1>1. worker.pc \notin Working
  BY WorkingNotSealed
<1>2. CASE Read
  BY <1>2 DEF Read, OnlyWorker, dbVars
<1>3. CASE Catch
  BY <1>3 DEF Catch, OnlyWorker, dbVars
<1>4. CASE Fail
  <2>1. worker.seen = "ROLLED_BACK"
    BY <1>4 DEF Fail, WorkInv
  <2>2. ~ Transition(worker.seen, "FAILED")
    BY <2>1 DEF Transition, ALLOWED_CHANGESET_TRANSITIONS
  <2> QED BY <1>4, <2>2 DEF Fail, OnlyStatus
<1>5. Read \/ Catch \/ Fail
  BY <1>1 DEF Handler, Working, Entry, Skipping, Applying, Drafting, At,
     Check, Mismatch, Materialize, Requeue, Latest, Start, Current, Generating,
     PersistGenerated, Ready, SkipRemainingProposed, SkipTally, SkipCounts, Begin,
     ListAccepted, Snapshot, Tally, CreateGeneratedRevision, SetCompleteness,
     SetActiveRevision, Finish
<1> QED BY <1>2, <1>3, <1>4, <1>5

\* A handler seals a change set only by finishing it.
LEMMA HandlerSeals ==
  ASSUME TypeOK, WorkInv, Handler, ~ Sealed, Sealed'
  PROVE  Finish
BY DEF Sealed, Handler, At, OnlyWorker, OnlyStatus, Transition, dbVars,
     Read, Check, Mismatch, Materialize, Requeue, Latest, Start, Current, Generating,
     PersistGenerated, Ready, SkipRemainingProposed, SkipTally, SkipCounts, Begin,
     ListAccepted, Snapshot, Tally, CreateGeneratedRevision, SetCompleteness,
     SetActiveRevision, Catch, Fail

\* What a finalized change set consists of is never written again, and its
\* status can only become ROLLED_BACK.
LEMMA StepKept ==
  ASSUME TypeOK, WorkInv, RollInv, Next, Sealed
  PROVE  /\ UNCHANGED <<artifact, revision, completeness>>
         /\ status' \in {status, "ROLLED_BACK"}
BY HandlerSealed, QueueEffect, ClientEffect DEF Next, Queue, dbVars

\* An API handler's step moves that handler alone, and only the three steps of
\* a rollback move it within one.
LEMMA ClientUpdate ==
  ASSUME TypeOK, NEW k \in Clients, Client(k)
  PROVE  /\ \A c \in Clients \ {k} : client'[c] = client[c]
         /\ \/ Rollback(k) \/ Reselect(k) \/ Withdraw(k)
            \/ client'[k].pc \notin {"reselect", "withdraw"}
<1> DEFINE Moves == \E r : client' = [client EXCEPT ![k] = r] /\ r.pc \notin {"reselect", "withdraw"}
<1>1. client \in [Clients -> Handlers]
  BY DEF TypeOK
<1>2. Moves => \A c \in Clients \ {k} : client'[c] = client[c]
  BY <1>1
<1>3. Moves => client'[k].pc \notin {"reselect", "withdraw"}
  BY <1>1
<1>4. ASSUME NEW j \in JobNames, Request(k, j) PROVE Moves
  <2>1. [client[k] EXCEPT !.pc = "enqueue", !.wish = j].pc = "enqueue"
    BY <1>1 DEF Handlers
  <2> QED BY <1>4, <2>1 DEF Request
<1>5. ASSUME NEW ch \in Changes, NEW v \in {"ACCEPTED", "REJECTED"}, Decide(k, ch, v) PROVE Moves
  <2>1. [client[k] EXCEPT !.pc = "decide", !.change = ch, !.wish = v].pc = "decide"
    BY <1>1 DEF Handlers
  <2> QED BY <1>5, <2>1 DEF Decide
<1>6. CASE AcceptAll(k)
  <2>1. [client[k] EXCEPT !.pc = "acceptAll"].pc = "acceptAll"
    BY <1>1 DEF Handlers
  <2> QED BY <1>2, <1>3, <1>6, <2>1 DEF AcceptAll
<1>7. CASE ReadCounts(k)
  <2>1. [client[k] EXCEPT !.pc = "counts", !.tally = CountsOf(rows)].pc = "counts"
    BY <1>1 DEF Handlers
  <2> QED BY <1>2, <1>3, <1>7, <2>1 DEF ReadCounts
<1>8. CASE SetChangeStatus(k) \/ AcceptAllProposed(k)
  <2>1. [Free EXCEPT !.pc = "tally"].pc = "tally"
    BY DEF Free
  <2> QED BY <1>2, <1>3, <1>8, <2>1 DEF SetChangeStatus, AcceptAllProposed
<1>9. CASE EnqueueJob(k) \/ WriteCounts(k) \/ Abandon(k)
  <2>1. Free.pc = "idle"
    BY DEF Free
  <2> QED BY <1>2, <1>3, <1>9, <2>1 DEF EnqueueJob, WriteCounts, Abandon
<1>10. CASE Rollback(k) \/ Reselect(k) \/ Withdraw(k)
  BY <1>1, <1>10 DEF Rollback, Reselect, Withdraw
<1> HIDE DEF Moves
<1> QED BY <1>2, <1>3, <1>4, <1>5, <1>6, <1>7, <1>8, <1>9, <1>10 DEF Client

\* Every step keeps RollInv.
LEMMA StepRoll == ASSUME TypeOK, WorkInv, RollInv, Next PROVE RollInv'
<1>1. CASE Handler
  <2>1. \A c \in Clients : client'[c].pc = client[c].pc \/ client'[c].pc = "idle"
    BY <1>1 DEF Handler, OnlyWorker, OnlyStatus,
       Read, Check, Mismatch, Materialize, Requeue, Latest, Start, Current, Generating,
       PersistGenerated, Ready, SkipRemainingProposed, SkipTally, SkipCounts, Begin,
       ListAccepted, Snapshot, Tally, CreateGeneratedRevision, SetCompleteness,
       SetActiveRevision, Finish, Catch, Fail, WithoutDecisions, Free
  <2>2. CASE Sealed
    BY <1>1, <2>1, <2>2, HandlerSealed DEF RollInv, Sealed
  <2>3. CASE ~ Sealed
    <3>1. status' # "ROLLED_BACK"
      BY <1>1, <2>3, HandlerSeals DEF Sealed, Finish, Transition
    <3> QED BY <2>1, <2>3, <3>1 DEF RollInv
  <2> QED BY <2>2, <2>3
<1>2. CASE Queue
  BY <1>2, QueueEffect DEF RollInv, Sealed, dbVars
<1>3. ASSUME NEW k \in Clients, Client(k) PROVE RollInv'
  <2>1. \A c \in Clients \ {k} : client'[c] = client[c]
    BY <1>3, ClientUpdate
  <2>2. Sealed => Sealed'
    BY <1>3, ClientEffect DEF Sealed
  <2>3. CASE Rollback(k)
    BY <2>1, <2>2, <2>3 DEF Rollback, OnlyClient, dbVars, RollInv, Sealed, TypeOK, Handlers
  <2>4. CASE Reselect(k)
    BY <2>1, <2>2, <2>4 DEF Reselect, RollInv, Sealed, TypeOK, Handlers
  <2>5. CASE Withdraw(k)
    BY <2>1, <2>2, <2>5 DEF Withdraw, RollInv, Sealed, TypeOK, Handlers, Free
  <2>6. CASE ~ (Rollback(k) \/ Reselect(k) \/ Withdraw(k))
    <3>1. client'[k].pc \notin {"reselect", "withdraw"}
      BY <1>3, <2>6, ClientUpdate
    <3>2. UNCHANGED <<status, active>>
      BY <1>3, <2>6 DEF Client, Request, EnqueueJob, Decide, SetChangeStatus, AcceptAll,
         AcceptAllProposed, ReadCounts, WriteCounts, Abandon, OnlyClient, dbVars
    <3> QED BY <2>1, <3>1, <3>2 DEF RollInv, Sealed
  <2> QED BY <2>3, <2>4, <2>5, <2>6
<1> QED BY <1>1, <1>2, <1>3 DEF Next, Queue

\* ShipInv when a step leaves the rows and the files alone and the handler is
\* not applying changes after it.
LEMMA ShipUnchanged ==
  ASSUME ShipInv, UNCHANGED <<rows, accepted, late, artifact>>, Sealed' => Sealed,
         worker'.pc \notin Applied
  PROVE  ShipInv'
BY DEF ShipInv, With, Applied, Applying

\* Each step of the handler keeps ShipInv.
LEMMA HandlerShip ==
  ASSUME TypeOK, WorkInv, ShipInv, Handler, WorkInv', TypeOK'
  PROVE  ShipInv'
<1> USE DEF Busy, Applied, Applying
<1>1. CASE Sealed
  <2>1. UNCHANGED <<status, rows, artifact, accepted, late>>
    BY <1>1, HandlerSealed
  <2>2. worker'.pc \notin Applied
    BY <1>1, <2>1 DEF WorkInv, Sealed
  <2> QED BY <1>1, <2>1, <2>2, ShipUnchanged
<1>2. CASE Finish
  <2>1. worker'.pc \in {"idle", "catch"}
    BY <1>2, WrittenLastPc DEF Finish, At
  <2>2. worker.applied \subseteq accepted /\ artifact = worker.applied
        /\ (~ late => worker.applied = With("ACCEPTED"))
    BY <1>2 DEF Finish, At, ShipInv
  <2> QED BY <1>2, <2>1, <2>2 DEF Finish, OnlyStatus, ShipInv, With
<1>3. CASE ~ Sealed /\ ~ Finish
  <2> USE <1>3
  <2>s. ~ Sealed'
    BY HandlerSeals
  <2>1. CASE PersistGenerated
    <3>1. With("ACCEPTED")' = {}
      BY <2>1 DEF PersistGenerated, With
    <3>2. worker'.pc \in {"idle", "catch", "ready"}
      BY <2>1, WrittenPc DEF PersistGenerated, At
    <3> QED BY <2>1, <2>s, <3>1, <3>2 DEF PersistGenerated, ShipInv
  <2>2. CASE SkipRemainingProposed
    <3>1. With("ACCEPTED")' = With("ACCEPTED")
      BY <2>2 DEF SkipRemainingProposed, With
    <3>2. worker'.pc \in {"idle", "catch", "skipTally"}
      BY <2>2, WrittenPc DEF SkipRemainingProposed, At
    <3> QED BY <2>2, <2>s, <3>1, <3>2 DEF SkipRemainingProposed, ShipInv
  <2>3. CASE ListAccepted
    <3>1. ASSUME Goto([worker EXCEPT !.pc = "snapshot", !.applied = With("ACCEPTED")])
          PROVE  worker'.pc = "snapshot" /\ worker'.applied = With("ACCEPTED")
      BY <3>1 DEF Goto, TypeOK, Workers
    <3>2. \/ worker'.pc = "snapshot" /\ worker'.applied = With("ACCEPTED")
          \/ worker'.pc \in {"idle", "catch"}
      BY <2>3, <3>1, ThrowPc DEF ListAccepted, At
    <3> QED BY <2>3, <2>s, <3>2 DEF ListAccepted, OnlyWorker, dbVars, ShipInv, With
  <2>4. CASE Snapshot
    BY <2>4, <2>s, ToPc DEF Snapshot, At, ShipInv, With
  <2>5. CASE Tally
    <3>1. worker'.applied = worker.applied
          /\ worker'.pc = IF revision = None THEN "create" ELSE "complete"
      BY <2>5 DEF Tally, At, Goto, TypeOK, Workers
    <3> QED BY <2>5, <2>s, <3>1 DEF Tally, At, OnlyWorker, dbVars, ShipInv, With
  <2>6. CASE CreateGeneratedRevision
    BY <2>6, <2>s, WrittenPc DEF CreateGeneratedRevision, At, ShipInv, With
  <2>7. CASE SetCompleteness
    BY <2>7, <2>s, WrittenPc DEF SetCompleteness, At, ShipInv, With
  <2>8. CASE SetActiveRevision
    BY <2>8, <2>s, WrittenPc DEF SetActiveRevision, At, ShipInv, With
  <2>9. CASE Requeue \/ Start \/ Generating \/ Begin
    <3>1. worker'.pc \in {"idle", "catch", "latest", "materialize", "persist"}
      BY <2>9, WrittenPc DEF Requeue, Start, Generating, Begin, At
    <3> QED BY <2>9, <2>s, <3>1, ShipUnchanged
            DEF Requeue, Start, Generating, Begin, OnlyStatus
  <2>10. CASE Mismatch \/ Fail \/ Ready
    <3>1. worker'.pc \in {"idle", "catch"}
      BY <2>10, WrittenLastPc, SettlePc DEF Mismatch, Fail, Ready, At
    <3> QED BY <2>10, <2>s, <3>1, ShipUnchanged DEF Mismatch, Fail, Ready, OnlyStatus
  <2>11. CASE Latest \/ Current
    <3>1. worker'.pc \in {"start", "materialize", "generating", "persist"}
      BY <2>11, ToPc DEF Latest, Current, At
    <3> QED BY <2>11, <2>s, <3>1, ShipUnchanged DEF Latest, Current, OnlyWorker, dbVars
  <2>12. CASE SkipTally
    <3>1. worker'.pc = "skipCounts"
      BY <2>12 DEF SkipTally, At, Goto, TypeOK, Workers
    <3> QED BY <2>12, <2>s, <3>1, ShipUnchanged DEF SkipTally, OnlyWorker, dbVars
  <2>13. CASE SkipCounts
    <3>1. worker'.pc \in {"idle", "catch", "begin"}
      BY <2>13, ThrowPc DEF SkipCounts, At, Goto, TypeOK, Workers
    <3> QED BY <2>13, <2>s, <3>1, ShipUnchanged DEF SkipCounts
  <2>14. CASE Materialize
    <3>1. worker'.pc \in {"idle", "catch", "current", "list"}
      BY <2>14, ToPc, ThrowPc, SettlePc DEF Materialize
    <3> QED BY <2>14, <2>s, <3>1, ShipUnchanged DEF Materialize, OnlyWorker, dbVars
  <2>15. CASE Read
    <3>1. worker'.pc \in {"idle", "check"}
      BY <2>15, SettlePc DEF Read, Goto, TypeOK, Workers
    <3> QED BY <2>15, <2>s, <3>1, ShipUnchanged DEF Read, OnlyWorker, dbVars
  <2>16. CASE Check
    <3>1. ASSUME NEW pc, Enter(pc) PROVE worker'.pc = pc
      BY <3>1 DEF Enter, Goto, Idle
    <3>2. worker'.pc \in {"mismatch", "requeue", "latest", "skip", "materialize"}
      BY <2>16, <3>1 DEF Check, TypeOK, Workers
    <3> QED BY <2>16, <2>s, <3>2, ShipUnchanged DEF Check, OnlyWorker, dbVars
  <2>17. CASE Catch
    <3>1. worker'.pc \in {"idle", "fail"}
      BY <2>17, SettlePc DEF Catch, Goto, TypeOK, Workers
    <3> QED BY <2>17, <2>s, <3>1, ShipUnchanged DEF Catch, OnlyWorker, dbVars
  <2> QED BY <2>1, <2>2, <2>3, <2>4, <2>5, <2>6, <2>7, <2>8, <2>9, <2>10, <2>11, <2>12, <2>13,
             <2>14, <2>15, <2>16, <2>17 DEF Handler
<1> QED BY <1>1, <1>2, <1>3

\* A decision accepts what it says it accepts, and one written while the
\* handler applies changes, or later, is late.
LEMMA ClientShip ==
  ASSUME TypeOK, WorkInv, RollInv, ShipInv, NEW k \in Clients, Client(k)
  PROVE  ShipInv'
<1>1. UNCHANGED <<worker, artifact, revision>> /\ (Sealed' => Sealed)
  BY ClientEffect DEF Sealed
<1>2. worker.pc \in Applied \/ Sealed => Collected
  BY DEF WorkInv, Applied, Applying, Sealed, Collected
<1>3. CASE SetChangeStatus(k)
  <2>1. With("ACCEPTED")' \subseteq accepted'
    BY <1>3 DEF SetChangeStatus, ShipInv, With, TypeOK
  <2>2. accepted \subseteq accepted' /\ late' = (late \/ Collected)
    BY <1>3 DEF SetChangeStatus
  <2> QED BY <1>1, <1>2, <2>1, <2>2 DEF ShipInv, Applied, Applying
<1>4. CASE AcceptAllProposed(k)
  <2>1. With("ACCEPTED")' \subseteq accepted' /\ accepted \subseteq accepted'
    BY <1>4 DEF AcceptAllProposed, ShipInv, With, TypeOK
  <2>2. late' = (late \/ (Collected /\ With("PROPOSED") # {}))
    BY <1>4 DEF AcceptAllProposed
  <2>3. With("PROPOSED") = {} => With("ACCEPTED")' = With("ACCEPTED")
    BY <1>4 DEF AcceptAllProposed, With
  <2> QED BY <1>1, <1>2, <2>1, <2>2, <2>3 DEF ShipInv, Applied, Applying
<1>5. CASE ~ (SetChangeStatus(k) \/ AcceptAllProposed(k))
  <2>1. UNCHANGED <<rows, accepted>>
    BY <1>5 DEF Client, Request, EnqueueJob, Decide, AcceptAll, ReadCounts, WriteCounts,
       Rollback, Reselect, Withdraw, Abandon, OnlyClient, dbVars, histVars
  <2>2. late => late'
    <3>1. CASE WriteCounts(k)
      BY <3>1 DEF WriteCounts
    <3>2. CASE ~ WriteCounts(k)
      BY <1>5, <3>2 DEF Client, Request, EnqueueJob, Decide, AcceptAll, ReadCounts,
         Rollback, Reselect, Withdraw, Abandon, OnlyClient, histVars
    <3> QED BY <3>1, <3>2
  <2> QED BY <1>1, <2>1, <2>2 DEF ShipInv, With, Applied, Applying
<1> QED BY <1>3, <1>4, <1>5

LEMMA Invariance == Spec => []IInv
<1>1. Init => IInv
  <2> SUFFICES ASSUME Init PROVE IInv
    OBVIOUS
  <2>1. worker.pc = "idle" /\ \A c \in Clients : client[c].pc = "idle"
    BY DEF Init, Idle, Free
  <2>2. WorkInv
    BY <2>1, RestInv
  <2>3. RollInv
    BY <2>1 DEF RollInv, Init
  <2>4. ShipInv
    BY <2>1 DEF Init, ShipInv, With, Applied, Applying, Sealed
  <2> QED BY <2>2, <2>3, <2>4, InitType DEF IInv
<1>2. IInv /\ [Next]_vars => IInv'
  <2> SUFFICES ASSUME IInv, [Next]_vars PROVE IInv'
    OBVIOUS
  <2>1. CASE UNCHANGED vars
    BY <2>1 DEF vars, dbVars, histVars, IInv, TypeOK, WorkInv, RollInv, ShipInv, Sealed, With
  <2>2. CASE Next
    <3>1. TypeOK' /\ WorkInv' /\ RollInv'
      BY <2>2, StepType, StepWork, StepRoll DEF IInv
    <3>2. ShipInv'
      <4>1. CASE Queue
        <5>1. UNCHANGED <<status, rows, artifact, revision, accepted, late>>
          BY <4>1, QueueEffect DEF dbVars, IInv
        <5> QED BY <4>1, <5>1, QueueEffect
                DEF IInv, ShipInv, With, Sealed, Applied, Applying
      <4> QED BY <2>2, <3>1, <4>1, HandlerShip, ClientShip DEF IInv, Next, Queue
    <3> QED BY <3>1, <3>2 DEF IInv
  <2> QED BY <2>1, <2>2
<1> QED BY <1>1, <1>2, PTL DEF Spec

\* A finalized change set ships exactly the accepted changes, unless a decision
\* was written after finalization collected them.
THEOREM RevisionIsReviewed == Spec => []RevisionIsTheReview
<1>1. IInv => RevisionIsTheReview
  BY DEF IInv, ShipInv, Sealed, RevisionIsTheReview
<1> QED BY <1>1, Invariance, PTL

\* However late decisions are, nothing ships that nobody accepted.
THEOREM OnlyAcceptedShips == Spec => []NothingShipsUnaccepted
<1>1. IInv => NothingShipsUnaccepted
  BY DEF IInv, ShipInv, Sealed, NothingShipsUnaccepted
<1> QED BY <1>1, Invariance, PTL

\* A rolled back change set's project has the original revision selected.
THEOREM RollbackSelects == Spec => []RolledBackSelectsOriginal
<1>1. IInv => RolledBackSelectsOriginal
  BY DEF IInv, RollInv, RolledBackSelectsOriginal
<1> QED BY <1>1, Invariance, PTL

\* Nothing rewrites what was finalized.
THEOREM FinalizedKept == Spec => FinalizedIsKept
<1>1. IInv /\ [Next]_vars =>
        [Sealed => /\ UNCHANGED <<artifact, revision, completeness>>
                   /\ status' \in {status, "ROLLED_BACK"}]_vars
  BY StepKept DEF IInv
<1> QED BY <1>1, Invariance, PTL DEF Spec, FinalizedIsKept

-----------------------------------------------------------------------------
(* COMPLETE means that all were accepted.  AbsentInv says that a change set *)
(* under review has a decision to take on each change, CountInv follows the *)
(* number of the changes not taken from the rows to the completeness.       *)

AllTaken == CountsOf(rows) = NoCounts

Counting == {"skipTally", "skipCounts", "begin", "create", "complete", "activate", "finish"}

AbsentInv ==
  worker.pc = "ready" \/ status \in {"READY_FOR_REVIEW", "FINALIZING", "FINALIZED"}
    => With("ABSENT") = {}

CountInv == ~ late =>
  /\ worker.pc \in {"skipTally", "skipCounts", "begin"} \/ status \in {"FINALIZING", "FINALIZED"}
       => With("PROPOSED") = {}
  /\ worker.pc = "skipCounts" => worker.tally = CountsOf(rows)
  /\ worker.pc = "begin" \/ status = "FINALIZING" => counts = CountsOf(rows)
  /\ worker.pc \in {"create", "complete"} => (worker.complete = "COMPLETE" <=> AllTaken)
  /\ worker.pc \in {"activate", "finish"} \/ status = "FINALIZED"
       => (completeness = "COMPLETE" <=> AllTaken)

\* The steps of the handler that have nothing to do with how many changes
\* were taken leave what is counted alone.
Aside == \/ Read \/ Check \/ Mismatch \/ Materialize \/ Requeue \/ Latest \/ Start \/ Current
         \/ Generating \/ ListAccepted \/ Snapshot \/ Catch \/ Fail

LEMMA AsideEffect ==
  ASSUME TypeOK, Aside
  PROVE  /\ UNCHANGED <<rows, counts, completeness, late>>
         /\ status' = status \/ status' \notin {"READY_FOR_REVIEW", "FINALIZING", "FINALIZED"}
         /\ worker'.pc \notin Counting \cup {"ready"}
<1> USE DEF Busy, Counting
<1>1. UNCHANGED <<rows, counts, completeness, late>>
  BY DEF Aside, OnlyWorker, OnlyStatus, dbVars, Read, Check, Mismatch, Materialize, Requeue,
     Latest, Start, Current, Generating, ListAccepted, Snapshot, Catch, Fail
<1>2. status' = status \/ status' \notin {"READY_FOR_REVIEW", "FINALIZING", "FINALIZED"}
  BY DEF Aside, OnlyWorker, dbVars, Transition, Read, Check, Mismatch, Materialize, Requeue,
     Latest, Start, Current, Generating, ListAccepted, Snapshot, Catch, Fail
<1>3. worker'.pc \notin Counting \cup {"ready"}
  <2>1. CASE Requeue \/ Start \/ Generating
    BY <2>1, WrittenPc DEF Requeue, Start, Generating, At
  <2>2. CASE Mismatch \/ Fail
    BY <2>2, WrittenLastPc, SettlePc DEF Mismatch, Fail
  <2>3. CASE Latest \/ Current \/ Snapshot
    BY <2>3, ToPc DEF Latest, Current, Snapshot, At
  <2>4. CASE Materialize
    BY <2>4, ToPc, ThrowPc, SettlePc DEF Materialize
  <2>5. CASE Read
    BY <2>5, SettlePc DEF Read, Goto, TypeOK, Workers
  <2>6. CASE Check
    <3>1. ASSUME NEW pc, Enter(pc) PROVE worker'.pc = pc
      BY <3>1 DEF Enter, Goto, Idle
    <3>2. worker'.pc \in {"mismatch", "requeue", "latest", "skip", "materialize"}
      BY <2>6, <3>1 DEF Check, TypeOK, Workers
    <3> QED BY <3>2
  <2>7. CASE Catch
    BY <2>7, SettlePc DEF Catch, Goto, TypeOK, Workers
  <2>8. CASE ListAccepted
    BY <2>8, ThrowPc DEF ListAccepted, At, Goto, TypeOK, Workers
  <2> QED BY <2>1, <2>2, <2>3, <2>4, <2>5, <2>6, <2>7, <2>8 DEF Aside
<1> QED BY <1>1, <1>2, <1>3

LEMMA WrittenComplete ==
  ASSUME Busy, NEW pc, Written(pc), worker'.pc \notin {"idle", "catch"}
  PROVE  worker'.pc = pc /\ worker'.complete = worker.complete
<1>1. To(pc)
  BY ThrowPc DEF Written
<1> QED BY <1>1 DEF To, Goto, Busy, TypeOK, Workers

\* Each step of the handler keeps both.
LEMMA HandlerCount ==
  ASSUME TypeOK, WorkInv, AbsentInv, CountInv, Handler, WorkInv'
  PROVE  AbsentInv' /\ CountInv'
<1> USE DEF Busy, Counting, At
<1>1. CASE Aside
  BY <1>1, AsideEffect DEF AbsentInv, CountInv, AllTaken, With, Counting
<1>2. CASE PersistGenerated
  <2>1. With("ABSENT")' = {}
    BY <1>2 DEF PersistGenerated, With
  <2>2. worker'.pc \in {"idle", "catch", "ready"} /\ status' \notin {"FINALIZING", "FINALIZED"}
    BY <1>2, WrittenPc DEF PersistGenerated, WorkInv, Drafting
  <2> QED BY <2>1, <2>2 DEF AbsentInv, CountInv
<1>3. CASE Ready
  <2>1. worker'.pc \in {"idle", "catch"} /\ status' = "READY_FOR_REVIEW" /\ UNCHANGED rows
    BY <1>3, WrittenLastPc DEF Ready, Transition, OnlyStatus
  <2> QED BY <1>3, <2>1 DEF Ready, AbsentInv, CountInv, With
<1>4. CASE SkipRemainingProposed
  <2>1. With("PROPOSED")' = {} /\ With("ABSENT")' = With("ABSENT")
    BY <1>4 DEF SkipRemainingProposed, With
  <2>2. worker'.pc \in {"idle", "catch", "skipTally"} /\ status' = "READY_FOR_REVIEW"
        /\ status = "READY_FOR_REVIEW"
    BY <1>4, WrittenPc DEF SkipRemainingProposed, WorkInv, Skipping
  <2> QED BY <2>1, <2>2 DEF AbsentInv, CountInv
<1>5. CASE SkipTally
  <2>1. worker'.pc = "skipCounts" /\ worker'.tally = CountsOf(rows)
    BY <1>5 DEF SkipTally, Goto, TypeOK, Workers
  <2>2. UNCHANGED <<status, rows, late>> /\ status = "READY_FOR_REVIEW"
    BY <1>5 DEF SkipTally, OnlyWorker, dbVars, WorkInv, Skipping
  <2> QED BY <1>5, <2>1, <2>2 DEF SkipTally, AbsentInv, CountInv, With
<1>6. CASE SkipCounts
  <2>1. worker'.pc \in {"idle", "catch", "begin"}
    BY <1>6, ThrowPc DEF SkipCounts, Goto, TypeOK, Workers
  <2>2. UNCHANGED <<status, rows, late>> /\ status = "READY_FOR_REVIEW" /\ counts' = worker.tally
    BY <1>6 DEF SkipCounts, WorkInv, Skipping
  <2> QED BY <1>6, <2>1, <2>2 DEF SkipCounts, AbsentInv, CountInv, With
<1>7. CASE Begin
  <2>1. worker'.pc \in {"idle", "catch", "materialize"} /\ status' = "FINALIZING"
    BY <1>7, WrittenPc DEF Begin, Transition
  <2>2. UNCHANGED <<rows, counts, late>> /\ status = "READY_FOR_REVIEW"
    BY <1>7 DEF Begin, OnlyStatus, WorkInv, Skipping
  <2> QED BY <1>7, <2>1, <2>2 DEF Begin, AbsentInv, CountInv, With
<1>8. CASE Tally \/ CreateGeneratedRevision \/ SetCompleteness \/ SetActiveRevision \/ Finish
  <2>1. status = "FINALIZING" /\ UNCHANGED <<rows, counts, late>>
    BY <1>8 DEF WorkInv, Applying, Tally, CreateGeneratedRevision, SetCompleteness,
       SetActiveRevision, Finish, OnlyWorker, OnlyStatus, dbVars
  <2>2. CASE Tally
    <3>1. /\ worker'.pc \in {"create", "complete"} /\ status' = status
          /\ worker'.complete = IF counts = NoCounts THEN "COMPLETE" ELSE "PARTIAL"
      BY <2>2 DEF Tally, Goto, TypeOK, Workers, OnlyWorker, dbVars
    <3> QED BY <2>1, <3>1 DEF AbsentInv, CountInv, With, AllTaken
  <2>3. CASE CreateGeneratedRevision
    <3>1. worker.pc # "idle" /\ Written("complete") /\ status' = status
      BY <2>3 DEF CreateGeneratedRevision
    <3>2. \/ worker'.pc \in {"idle", "catch"}
          \/ worker'.pc = "complete" /\ worker'.complete = worker.complete
      BY <3>1, WrittenComplete
    <3> QED BY <2>1, <2>3, <3>1, <3>2 DEF CreateGeneratedRevision, AbsentInv, CountInv, With, AllTaken
  <2>4. CASE SetCompleteness
    <3>1. worker'.pc \in {"idle", "catch", "activate"} /\ status' = status
      BY <2>4, WrittenPc DEF SetCompleteness
    <3> QED BY <2>1, <2>4, <3>1 DEF SetCompleteness, AbsentInv, CountInv, With, AllTaken
  <2>5. CASE SetActiveRevision
    <3>1. worker'.pc \in {"idle", "catch", "finish"} /\ UNCHANGED <<status, completeness>>
      BY <2>5, WrittenPc DEF SetActiveRevision
    <3> QED BY <2>1, <2>5, <3>1 DEF SetActiveRevision, AbsentInv, CountInv, With, AllTaken
  <2>6. CASE Finish
    <3>1. worker'.pc \in {"idle", "catch"} /\ status' = "FINALIZED" /\ UNCHANGED completeness
      BY <2>6, WrittenLastPc DEF Finish, Transition, OnlyStatus
    <3> QED BY <2>1, <2>6, <3>1 DEF Finish, AbsentInv, CountInv, With, AllTaken
  <2> QED BY <1>8, <2>2, <2>3, <2>4, <2>5, <2>6
<1> QED BY <1>1, <1>2, <1>3, <1>4, <1>5, <1>6, <1>7, <1>8 DEF Handler, Aside

\* A decision is late from the moment the finalization collects them.
LEMMA ClientCount ==
  ASSUME TypeOK, WorkInv, RollInv, AbsentInv, CountInv, NEW k \in Clients, Client(k)
  PROVE  AbsentInv' /\ CountInv'
<1>1. UNCHANGED <<worker, completeness>>
      /\ (status' = status \/ (Sealed /\ status' = "ROLLED_BACK"))
  BY ClientEffect
<1>2. worker.pc \in Counting \/ status \in {"FINALIZING", "FINALIZED"} => Collected
  BY DEF WorkInv, Skipping, Applying, Counting, Collected
<1>3. ~ Collected /\ status' = status => status' \notin {"FINALIZING", "FINALIZED"}
  BY DEF Collected
<1>4. CASE SetChangeStatus(k)
  <2>1. With("ABSENT")' \subseteq With("ABSENT")
    BY <1>4 DEF SetChangeStatus, With, TypeOK
  <2>2. late' = (late \/ Collected) /\ status' = status
    BY <1>4 DEF SetChangeStatus
  <2> QED BY <1>1, <1>2, <2>1, <2>2 DEF AbsentInv, CountInv, Counting
<1>5. CASE AcceptAllProposed(k)
  <2>1. With("ABSENT")' \subseteq With("ABSENT") /\ With("PROPOSED")' = {}
    BY <1>5 DEF AcceptAllProposed, With
  <2>2. late' = (late \/ (Collected /\ With("PROPOSED") # {})) /\ UNCHANGED <<status, counts>>
    BY <1>5 DEF AcceptAllProposed
  <2>3. With("PROPOSED") = {} => rows' = rows
    BY <1>5 DEF AcceptAllProposed, With, TypeOK
  <2> QED BY <1>1, <1>2, <2>1, <2>2, <2>3 DEF AbsentInv, CountInv, Counting, With, AllTaken
<1>6. CASE WriteCounts(k)
  <2>1. late' = (late \/ (Collected /\ counts' # CountsOf(rows))) /\ UNCHANGED <<status, rows>>
    BY <1>6 DEF WriteCounts
  <2> QED BY <1>1, <1>2, <2>1 DEF AbsentInv, CountInv, Counting, With, AllTaken
<1>7. CASE ~ (SetChangeStatus(k) \/ AcceptAllProposed(k) \/ WriteCounts(k))
  <2>1. UNCHANGED <<rows, counts, late>>
    BY <1>7 DEF Client, Request, EnqueueJob, Decide, AcceptAll, ReadCounts, Rollback, Reselect,
       Withdraw, Abandon, OnlyClient, dbVars, histVars
  <2>2. CASE status' = status
    BY <1>1, <2>1, <2>2 DEF AbsentInv, CountInv, With, AllTaken
  <2>3. CASE Sealed /\ status' = "ROLLED_BACK"
    <3>1. worker.pc \notin Counting \cup {"ready"}
      BY <2>3 DEF WorkInv, Skipping, Applying, Drafting, Counting, Sealed
    <3> QED BY <1>1, <2>3, <3>1 DEF AbsentInv, CountInv, Counting
  <2> QED BY <1>1, <2>2, <2>3
<1> QED BY <1>4, <1>5, <1>6, <1>7

\* What the queue and a fault do is nothing to the rows.
LEMMA QueueCount ==
  ASSUME TypeOK, AbsentInv, CountInv, Queue PROVE AbsentInv' /\ CountInv'
<1>1. UNCHANGED <<dbVars, late>> /\ (worker' = worker \/ worker'.pc \in {"idle", "catch", "read"})
  BY QueueEffect
<1> QED BY <1>1 DEF dbVars, AbsentInv, CountInv, With, AllTaken

\* With a decision on each change, all were accepted when none is counted as
\* rejected or skipped.
LEMMA AllTakenMeansAccepted ==
  ASSUME TypeOK, With("ABSENT") = {}, With("PROPOSED") = {}
  PROVE  AllTaken <=> With("ACCEPTED") = Changes
<1>1. AllTaken <=> With("REJECTED") = {} /\ With("SKIPPED") = {}
  <2>1. IsFiniteSet(With("REJECTED")) /\ IsFiniteSet(With("SKIPPED"))
    BY ChangeSetConstants, FS_Subset DEF With
  <2>2. /\ Cardinality(With("REJECTED")) = 0 <=> With("REJECTED") = {}
        /\ Cardinality(With("SKIPPED")) = 0 <=> With("SKIPPED") = {}
    BY <2>1, FS_EmptySet
  <2> QED BY <2>2 DEF AllTaken, CountsOf, NoCounts, With
<1>2. \A c \in Changes : rows[c] \in {"ACCEPTED", "REJECTED", "SKIPPED"}
  <2>1. \A c \in Changes : c \notin With("ABSENT") /\ c \notin With("PROPOSED")
    OBVIOUS
  <2>2. \A c \in Changes : rows[c] \in RowStatuses
    BY DEF TypeOK
  <2>3. \A c \in Changes : rows[c] # "ABSENT" /\ rows[c] # "PROPOSED"
    BY <2>1 DEF With
  <2> QED BY <2>2, <2>3
<1> QED BY <1>1, <1>2 DEF With

LEMMA CountInvariance == Spec => [](AbsentInv /\ CountInv)
<1>1. Init => AbsentInv /\ CountInv
  BY DEF Init, Idle, AbsentInv, CountInv
<1>2. IInv /\ IInv' /\ AbsentInv /\ CountInv /\ [Next]_vars => (AbsentInv /\ CountInv)'
  <2> SUFFICES ASSUME IInv, IInv', AbsentInv, CountInv, [Next]_vars
               PROVE  (AbsentInv /\ CountInv)'
    OBVIOUS
  <2>1. CASE UNCHANGED vars
    BY <2>1 DEF vars, dbVars, histVars, AbsentInv, CountInv, With, AllTaken
  <2>2. CASE Next
    BY <2>2, HandlerCount, ClientCount, QueueCount DEF IInv, Next, Queue
  <2> QED BY <2>1, <2>2
<1> QED BY <1>1, <1>2, Invariance, PTL DEF Spec

\* A finalized change set is COMPLETE exactly when each of its changes was
\* accepted, unless a decision was written after finalization collected them.
THEOREM CompleteIsAllAccepted == Spec => []CompleteMeansAllAccepted
<1>1. IInv /\ AbsentInv /\ CountInv => CompleteMeansAllAccepted
  BY AllTakenMeansAccepted DEF IInv, AbsentInv, CountInv, CompleteMeansAllAccepted
<1> QED BY <1>1, Invariance, CountInvariance, PTL

=============================================================================
