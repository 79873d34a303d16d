---------------------------- MODULE ReleaseProofs ----------------------------
(***************************************************************************)
(* Proofs about the release, for every set of clients, plans and scripts   *)
(* and every number of runs and crashes.  The inductive invariant is IInv: *)
(* FinalInv ties the stored files to the finalization, ReadyInv says what  *)
(* a run past its preparation still stands on, and LateInv what a rollback *)
(* found under way.                                                        *)
(***************************************************************************)
EXTENDS ReleaseProperties, SequenceTheorems, TLAPS

Past == {"PREPARED", "FUNDING", "BROADCASTING"}

\* The worker has this run.
Engaged(i) == worker.pc # "idle" /\ worker.run = i

\* What makes a revision fit to be deployed from the plan of its change set.
Ready(r) ==
  /\ Passed(r)
  /\ r = "GENERATED" =>
       /\ generated.completeness = "COMPLETE"
       /\ plan.safe > 0 => set.status \in {"FINALIZED", "ROLLED_BACK"}

Same(r) == materialize(r) = contentHash(r)

\* The files change while the finalizer has the change set only, and an empty plan
\* keeps those of the base.
FinalInv ==
  /\ finalizer.pc # "idle" => set.status = "FINALIZING"
  /\ finalizer.pc \in {"create", "complete"} => artifact # None
  /\ generated # None => artifact # None
  /\ plan.safe = 0 => /\ artifact \in {None, "git"}
                      /\ generated # None => generated.hash = "git"

\* A validation is of a revision that is there, and of the files its hash names.
TestInv ==
  \A r \in Revisions :
    validations[r] # None =>
      /\ Exists(r)
      /\ validations[r].status \in {"RUNNING", "COMPLETED"} => validations[r].tested = contentHash(r)

AskInv ==
  /\ \A c \in Clients : client[c].pc # "idle" =>
       Exists(client[c].revision) /\ client[c].plan \in AnyPlan
  /\ \A i \in DOMAIN runs : Exists(runs[i].revision)

KeyInv ==
  /\ \A i, j \in DOMAIN runs : runs[i].key = runs[j].key => i = j
  /\ \A i \in DOMAIN runs :
       /\ runs[i].key.revision = runs[i].revision
       /\ runs[i].key.candidate # None /\ runs[i].key.candidate.revision = runs[i].revision
            => runs[i].candidate = runs[i].key.candidate

ReadyInv ==
  \A i \in DOMAIN runs : runs[i].plan = plan =>
    /\ runs[i].status \in Past \/ Engaged(i) => Ready(runs[i].revision)
    /\ runs[i].status \in Past \/ (Engaged(i) /\ worker.pc # "detect") => Same(runs[i].revision)

LaunchInv ==
  \A l \in launched :
    /\ l.run \in DOMAIN runs
    /\ runs[l.run].status # "QUEUED"
    /\ runs[l.run].plan = plan =>
         Ready(runs[l.run].revision) /\ l.content = contentHash(runs[l.run].revision)

Withdrawn(i) == runs[i].revision = "GENERATED" /\ runs[i].plan.safe > 0

UnderwayInv ==
  set.status = "ROLLED_BACK" =>
    /\ \A i \in DOMAIN runs :
         Withdrawn(i) /\ (runs[i].status \in Past \/ Engaged(i)) => i \in underway
    /\ \A l \in launched : Withdrawn(l.run) => l.run \in underway

LateInv == (worker.pc # "idle" => runs[worker.run].status # "QUEUED") /\ UnderwayInv

IInv == TypeOK /\ FinalInv /\ TestInv /\ AskInv /\ KeyInv /\ ReadyInv /\ LaunchInv /\ LateInv

-----------------------------------------------------------------------------
(* Type correctness.                                                       *)

Row   == [key : RunKeys, revision : Revisions, candidate : Names, plan : AnyPlan,
          status : RunStatuses]
Tests == [status : {"QUEUED", "RUNNING", "COMPLETED", "FAILED"},
          outcome : {None, "PASSED", "FAILED"}, tested : {None} \cup Trees]
Requests == [pc : {"idle", "look", "create", "enqueue"},
             revision : Revisions, candidate : {Unnamed} \cup Names, plan : {None} \cup AnyPlan]

LEMMA RowsType == TypeOK => runs \in Seq(Row) /\ \A i \in DOMAIN runs : runs[i] \in Row
<1> SUFFICES ASSUME TypeOK PROVE runs \in Seq(Row) /\ \A i \in DOMAIN runs : runs[i] \in Row
  OBVIOUS
<1>1. runs \in Seq(Row)
  BY DEF TypeOK, Row
<1> QED BY <1>1

\* What a write of the status does to a sequence of rows, and of the candidate with it.
LEMMA RowWrite ==
  ASSUME NEW q \in Seq(Row), NEW i \in DOMAIN q, NEW s \in RunStatuses, NEW n \in Names
  PROVE  /\ [q EXCEPT ![i].status = s] \in Seq(Row)
         /\ DOMAIN [q EXCEPT ![i].status = s] = DOMAIN q
         /\ \A j \in DOMAIN q : [q EXCEPT ![i].status = s][j] =
                                  IF j = i THEN [q[i] EXCEPT !.status = s] ELSE q[j]
         /\ [q EXCEPT ![i].candidate = n, ![i].status = s] \in Seq(Row)
         /\ DOMAIN [q EXCEPT ![i].candidate = n, ![i].status = s] = DOMAIN q
         /\ \A j \in DOMAIN q : [q EXCEPT ![i].candidate = n, ![i].status = s][j] =
                                  IF j = i THEN [q[i] EXCEPT !.candidate = n, !.status = s] ELSE q[j]
<1>1. i \in 1 .. Len(q) /\ q[i] \in Row
  OBVIOUS
<1>2. [q[i] EXCEPT !.status = s] \in Row /\ [q[i] EXCEPT !.candidate = n, !.status = s] \in Row
  BY <1>1 DEF Row
<1>3. [q EXCEPT ![i].candidate = n, ![i].status = s]
        = [q EXCEPT ![i] = [q[i] EXCEPT !.candidate = n, !.status = s]]
  BY <1>1
<1> QED BY <1>1, <1>2, <1>3, ExceptSeq

\* Which part of the state a step can touch.
LEMMA Parts ==
  ASSUME Next
  PROVE  /\ plan' = plan
         /\ \/ Finalization /\ UNCHANGED <<validations, deployVars>>
            \/ (\E r \in Revisions : Validating(r)) /\ UNCHANGED <<finalizeVars, deployVars>>
            \/ /\ \E c \in Clients : Requesting(c)
               /\ UNCHANGED <<finalizeVars, validations, candidates, worker, keys, launched>>
            \/ Deploying /\ UNCHANGED <<finalizeVars, validations>>
<1> USE DEF finalizeVars, deployVars
<1>1. CASE Finalization
  BY <1>1 DEF Finalization, StartFinalize, Snapshot, CreateRevision, CompleteFinalize, Rollback,
              FinalizerDies
<1>2. ASSUME NEW r \in Revisions, Validating(r)
      PROVE  UNCHANGED <<plan, finalizeVars, deployVars>>
  BY <1>2 DEF Validating, RequestValidation, StartValidation, EndValidation
<1>3. ASSUME NEW c \in Clients, Requesting(c)
      PROVE  UNCHANGED <<plan, finalizeVars, validations, candidates, worker, keys, launched>>
  BY <1>3 DEF Requesting, Ask, Look, Create, Enqueue, RequestDies, NotRequest
<1>4. CASE Deploying
  <2>1. UNCHANGED <<plan, finalizeVars, validations>>
    BY <1>4 DEF Deploying, Confirm, Cancel, StartPrepare, StartBroadcast, Reconcile, NothingToDo,
                Detect, Simulate, Launch, EndBroadcast, WorkerDies, NotRequest, NotWorker
  <2> QED BY <1>4, <2>1
<1> QED BY <1>1, <1>2, <1>3, <1>4 DEF Next

\* What a step does to the rows of the runs: at most one is written, or added.
LEMMA RunStep ==
  ASSUME TypeOK, Next
  PROVE  \/ UNCHANGED runs
         \/ \E c \in Clients : /\ At(c, "create") /\ WithKey(Asked(c)) = {}
                              /\ runs' = Append(runs, NewRun(c))
         \/ \E i \in DOMAIN runs, s \in RunStatuses \ {"QUEUED"} :
              /\ runs' = [runs EXCEPT ![i].status = s]
              /\ s \in Past => runs[i].status \in Past \/ (Engaged(i) /\ worker.pc # "detect")
         \/ \E i \in DOMAIN runs : \E x \in Foundry(Selected(i)) :
              runs' = [runs EXCEPT ![i].candidate = x, ![i].status = "PREPARING"]
<1>1. CASE UNCHANGED deployVars
  BY <1>1 DEF deployVars
<1>2. ASSUME NEW c \in Clients, Requesting(c)
      PROVE  \/ UNCHANGED runs
             \/ /\ At(c, "create") /\ WithKey(Asked(c)) = {}
                /\ runs' = Append(runs, NewRun(c))
  BY <1>2 DEF Requesting, Ask, Look, Create, Enqueue, RequestDies
<1>3. CASE Deploying
  <2> DEFINE written(i, s) ==
               /\ runs' = [runs EXCEPT ![i].status = s]
               /\ s \in Past => runs[i].status \in Past \/ (Engaged(i) /\ worker.pc # "detect")
             found(i, x) == runs' = [runs EXCEPT ![i].candidate = x, ![i].status = "PREPARING"]
  <2>1. ASSUME NEW i \in DOMAIN runs,
               \/ Confirm(i) \/ Cancel(i) \/ StartPrepare(i) \/ StartBroadcast(i) \/ Reconcile(i)
               \/ NothingToDo(i)
        PROVE  UNCHANGED runs \/ \E s \in RunStatuses \ {"QUEUED"} : written(i, s)
    <3>1. CASE StartPrepare(i)
      <4>1. written(i, Prepared(runs[i].status)) \/ written(i, "FAILED")
        BY <3>1 DEF StartPrepare, Prepared, Past
      <4>2. Prepared(runs[i].status) \in RunStatuses \ {"QUEUED"}
        BY <3>1 DEF StartPrepare, Prepared, RunStatuses
      <4> QED BY <4>1, <4>2 DEF RunStatuses
    <3> QED BY <2>1, <3>1 DEF Confirm, Cancel, StartBroadcast, Reconcile, NothingToDo, Past, RunStatuses
  <2>2. worker.pc # "idle" => worker.run \in DOMAIN runs
    BY DEF TypeOK
  <2>3. CASE Detect
    <3>1. worker.run \in DOMAIN runs
      BY <2>2, <2>3 DEF Detect
    <3>2. \/ written(worker.run, "FAILED")
          \/ \E x \in Foundry(Selected(worker.run)) : found(worker.run, x)
      BY <2>3 DEF Detect, Done, Past
    <3> QED BY <3>1, <3>2 DEF RunStatuses
  <2>4. CASE Simulate \/ Launch \/ EndBroadcast
    <3>1. worker.run \in DOMAIN runs
      BY <2>2, <2>4 DEF Simulate, Launch, EndBroadcast
    <3>2. \E s \in RunStatuses \ {"QUEUED"} : written(worker.run, s)
      BY <2>4 DEF Simulate, Launch, EndBroadcast, Done, Engaged, RunStatuses
    <3> QED BY <3>1, <3>2
  <2>5. CASE WorkerDies
    BY <2>5 DEF WorkerDies
  <2> QED BY <1>3, <2>1, <2>3, <2>4, <2>5 DEF Deploying
<1> QED BY <1>1, <1>2, <1>3, Parts

\* What a step does to the worker.
LEMMA WorkerStep ==
  ASSUME TypeOK, Next, worker' # worker, worker'.pc # "idle"
  PROVE  LET i == worker'.run IN
         \/ /\ worker'.pc = "detect" /\ i \in DOMAIN runs
            /\ evaluateEligibility(runs[i].revision, runs[i].plan)
            /\ runs' = [runs EXCEPT ![i].status = Prepared(@)]
         \/ /\ worker'.pc = "launch" /\ i \in DOMAIN runs /\ runs[i].status \in Past
            /\ runs' = [runs EXCEPT ![i].status = "FUNDING"]
         \/ /\ worker.pc # "idle" /\ worker'.pc \in {"simulate", "confirm"} /\ i = worker.run
            /\ worker.pc = "detect" => Matches(runs[i].revision, materialize(runs[i].revision))
<1>1. Deploying
  BY Parts DEF deployVars
<1>2. ASSUME NEW i \in DOMAIN runs,
             \/ Confirm(i) \/ Cancel(i) \/ StartPrepare(i) \/ StartBroadcast(i) \/ Reconcile(i)
             \/ NothingToDo(i)
      PROVE  \/ /\ worker'.pc = "detect" /\ worker'.run = i
                /\ evaluateEligibility(runs[i].revision, runs[i].plan)
                /\ runs' = [runs EXCEPT ![i].status = Prepared(@)]
             \/ /\ worker'.pc = "launch" /\ worker'.run = i /\ runs[i].status \in Past
                /\ runs' = [runs EXCEPT ![i].status = "FUNDING"]
  <2>1. CASE StartPrepare(i)
    BY <2>1 DEF StartPrepare
  <2>2. CASE StartBroadcast(i)
    BY <2>2 DEF StartBroadcast, Past
  <2> QED BY <1>2, <2>1, <2>2 DEF Confirm, Cancel, Reconcile, NothingToDo, NotRequest
<1>3. CASE Detect
  <2>1. worker'.pc # "idle" =>
          /\ worker' = [worker EXCEPT !.pc = "simulate"] /\ worker.pc = "detect"
          /\ Matches(runs[worker.run].revision, materialize(runs[worker.run].revision))
    <3>1. \/ worker' = Resting
          \/ /\ worker' = [worker EXCEPT !.pc = "simulate"] /\ worker.pc = "detect"
             /\ Matches(runs[worker.run].revision, materialize(runs[worker.run].revision))
      BY <1>3, Zenon DEF Detect, Done
    <3> QED BY <3>1 DEF Resting
  <2> QED BY <2>1 DEF TypeOK
<1>4. CASE Simulate \/ EndBroadcast \/ WorkerDies
  BY <1>4 DEF Simulate, EndBroadcast, WorkerDies, Done, Resting
<1>5. CASE Launch
  BY <1>5 DEF Launch, TypeOK
<1> QED BY <1>1, <1>2, <1>3, <1>4, <1>5 DEF Deploying

\* Rows stay where they are, with what they are about, and never return to the queue.
Kept(q, t) ==
  /\ DOMAIN q \subseteq DOMAIN t
  /\ \A i \in DOMAIN q : /\ t[i].revision = q[i].revision
                         /\ t[i].plan = q[i].plan /\ t[i].key = q[i].key
                         /\ q[i].status # "QUEUED" => t[i].status # "QUEUED"

\* The row that is selected is one of the revision's own.
LEMMA SelectedRow ==
  ASSUME TypeOK, NEW i \in DOMAIN runs, NEW x \in Selected(i)
  PROVE  x \in Own(runs[i].revision) /\ x \in Rows
<1>1. runs[i].revision \in Revisions
  BY RowsType DEF Row
<1>2. x \in Own(runs[i].revision)
  BY DEF Selected, Own, Detected
<1> QED BY <1>1, <1>2 DEF Own, Rows

LEMMA RowsKept ==
  ASSUME TypeOK, AskInv, Next
  PROVE  runs' \in Seq(Row) /\ Kept(runs, runs')
<1>1. runs \in Seq(Row)
  BY RowsType
<1>2. ASSUME UNCHANGED runs PROVE runs' \in Seq(Row) /\ Kept(runs, runs')
  BY <1>1, <1>2 DEF Kept
<1>3. ASSUME NEW c \in Clients, At(c, "create"), runs' = Append(runs, NewRun(c))
      PROVE  runs' \in Seq(Row) /\ Kept(runs, runs')
  <2>1. client[c].revision \in Revisions /\ client[c].candidate \in Names /\ client[c].plan \in AnyPlan
    BY <1>3 DEF TypeOK, AskInv, At
  <2>2. NewRun(c) \in Row
    BY <2>1 DEF NewRun, Row, Asked, prepareKey, RunKeys, RunStatuses
  <2>3. /\ runs' \in Seq(Row) /\ DOMAIN runs' = 1 .. Len(runs) + 1
        /\ \A i \in DOMAIN runs : runs'[i] = runs[i]
    BY <1>1, <1>3, <2>2
  <2> QED BY <1>1, <2>3 DEF Kept
<1>4. ASSUME NEW i \in DOMAIN runs, NEW s \in RunStatuses \ {"QUEUED"},
             runs' = [runs EXCEPT ![i].status = s]
      PROVE  runs' \in Seq(Row) /\ Kept(runs, runs')
  <2>1. None \in Names
    BY DEF Names
  <2>2. /\ runs' \in Seq(Row) /\ DOMAIN runs' = DOMAIN runs
        /\ \A j \in DOMAIN runs : runs'[j] = IF j = i THEN [runs[i] EXCEPT !.status = s] ELSE runs[j]
    BY <1>1, <1>4, <2>1, RowWrite
  <2>3. \A j \in DOMAIN runs : runs[j] \in Row
    BY <1>1
  <2> QED BY <2>2, <2>3 DEF Kept, Row
<1>5. ASSUME NEW i \in DOMAIN runs, NEW x \in Foundry(Selected(i)),
             runs' = [runs EXCEPT ![i].candidate = x, ![i].status = "PREPARING"]
      PROVE  runs' \in Seq(Row) /\ Kept(runs, runs')
  <2>1. x \in Names /\ "PREPARING" \in RunStatuses
    BY SelectedRow DEF Foundry, Names, RunStatuses
  <2>2. /\ runs' \in Seq(Row) /\ DOMAIN runs' = DOMAIN runs
        /\ \A j \in DOMAIN runs : runs'[j] = IF j = i
                               THEN [runs[i] EXCEPT !.candidate = x, !.status = "PREPARING"]
                               ELSE runs[j]
    BY <1>1, <1>5, <2>1, RowWrite
  <2>3. \A j \in DOMAIN runs : runs[j] \in Row
    BY <1>1
  <2> QED BY <2>2, <2>3 DEF Kept, Row
<1> QED BY <1>2, <1>3, <1>4, <1>5, RunStep

\* Only a row that is added is new, and it is the last one.
LEMMA NewRow ==
  ASSUME TypeOK
  PROVE  /\ \A i, s, n : /\ DOMAIN [runs EXCEPT ![i].status = s] = DOMAIN runs
                         /\ DOMAIN [runs EXCEPT ![i].candidate = n, ![i].status = s] = DOMAIN runs
         /\ \A e : /\ DOMAIN Append(runs, e) = DOMAIN runs \cup {Len(runs) + 1}
                  /\ Append(runs, e)[Len(runs) + 1] = e
                  /\ \A i \in DOMAIN runs : Append(runs, e)[i] = runs[i]
BY RowsType

\* The change set, its revision and the validations stay within their types.
LEMMA FilesType ==
  ASSUME TypeOK, FinalInv, Next
  PROVE  /\ plan' \in Plans
         /\ set' \in [status : SetStatuses, completeness : {None} \cup Complete]
         /\ generated' \in {None} \cup [hash : Trees, completeness : Complete]
         /\ artifact' \in {None} \cup Trees
         /\ finalizer' \in [pc : {"idle", "snapshot", "create", "complete"},
                            completeness : {None} \cup Complete]
         /\ underway' \subseteq DOMAIN runs
<1> DEFINE SetRows == [status : SetStatuses, completeness : {None} \cup Complete]
           Handlers == [pc : {"idle", "snapshot", "create", "complete"},
                        completeness : {None} \cup Complete]
<1>1. /\ plan \in Plans /\ set \in SetRows /\ finalizer \in Handlers
      /\ generated \in {None} \cup [hash : Trees, completeness : Complete]
      /\ artifact \in {None} \cup Trees /\ underway \subseteq DOMAIN runs
  BY DEF TypeOK
<1>2. \A st \in SetStatuses : [set EXCEPT !.status = st] \in SetRows
  BY <1>1 DEF SetStatuses
<1>3. \A pc \in {"idle", "snapshot", "create", "complete"} : [finalizer EXCEPT !.pc = pc] \in Handlers
  BY <1>1
<1>4. CASE UNCHANGED finalizeVars
  BY <1>1, <1>4, Parts DEF finalizeVars
<1>5. CASE StartFinalize
  BY <1>1, <1>2, <1>3, <1>5 DEF StartFinalize, SetStatuses
<1>6. CASE Snapshot
  BY <1>1, <1>2, <1>3, <1>6 DEF Snapshot, SetStatuses, Trees, NotFinalizing
<1>7. CASE CreateRevision
  BY <1>1, <1>7 DEF CreateRevision, FinalInv, Complete
<1>8. CASE CompleteFinalize
  BY <1>1, <1>8 DEF CompleteFinalize, SetStatuses, NotFinalizing
<1>9. CASE Rollback
  BY <1>1, <1>2, <1>9 DEF Rollback, SetStatuses
<1>10. CASE FinalizerDies
  BY <1>1, <1>10 DEF FinalizerDies, NotFinalizing
<1> QED BY <1>4, <1>5, <1>6, <1>7, <1>8, <1>9, <1>10, Parts DEF Finalization

LEMMA TestsType ==
  ASSUME TypeOK, Next
  PROVE  validations' \in [Revisions -> {None} \cup Tests]
<1>1. validations \in [Revisions -> {None} \cup Tests]
  BY DEF TypeOK, Tests
<1>2. \A r \in Revisions : materialize(r) \in {None} \cup Trees
  BY DEF TypeOK, materialize, Trees
<1>3. ASSUME NEW r \in Revisions, Validating(r)
      PROVE  validations' \in [Revisions -> {None} \cup Tests]
  <2>1. CASE RequestValidation(r)
    BY <1>1, <2>1 DEF RequestValidation, validation, Tests
  <2>2. CASE StartValidation(r)
    BY <1>1, <1>2, <2>2 DEF StartValidation, validation, Tests
  <2>3. CASE EndValidation(r)
    BY <1>1, <2>3 DEF EndValidation, validation, Tests
  <2> QED BY <1>3, <2>1, <2>2, <2>3 DEF Validating
<1> QED BY <1>1, <1>3, Parts

\* A request means a candidate, of whichever revision, or none yet.
LEMMA MeantName ==
  ASSUME TypeOK, NEW c \in Clients
  PROVE  Meant(c) \in Names
<1>1. client[c].candidate \in {Unnamed} \cup Names /\ candidates \subseteq Names /\ None \in Names
  BY DEF TypeOK, Names
<1>2. Listed(c) \subseteq Names
  BY <1>1 DEF Listed, Foundry
<1>3. Listed(c) # {} => (CHOOSE x \in Listed(c) : TRUE) \in Names
  BY <1>2
<1> QED BY <1>1, <1>3 DEF Meant

\* From the look-up on, a request that is being handled has a name for its key.
LEMMA NamedType ==
  ASSUME TypeOK, Next
  PROVE  \A c \in Clients : client'[c].pc \in {"create", "enqueue"} => client'[c].candidate \in Names
<1>1. client \in [Clients -> Requests]
  BY DEF TypeOK, Requests
<1>2. CASE UNCHANGED client
  BY <1>2 DEF TypeOK
<1>3. ASSUME NEW c \in Clients, Requesting(c), NEW d \in Clients,
             client'[d].pc \in {"create", "enqueue"}
      PROVE  client'[d].candidate \in Names
  <2>1. ASSUME NEW r \in Revisions, NEW p \in {plan} \cup Others, Ask(c, r, p)
        PROVE  client'[d] = client[d]
    BY <1>1, <1>3, <2>1 DEF Ask
  <2>2. CASE Look(c)
    <3>1. client' = [client EXCEPT ![c] = Idle]
          \/ client' = [client EXCEPT ![c].pc = "create", ![c].candidate = Meant(c)]
      BY <2>2 DEF Look, Answer
    <3>2. client'[d] = client[d] \/ client'[d] = Idle \/ client'[d].candidate = Meant(c)
      BY <1>1, <3>1 DEF Requests
    <3> QED BY <1>3, <3>2, MeantName DEF Idle, TypeOK
  <2>3. CASE Create(c)
    <3>1. client' = [client EXCEPT ![c] = Idle] \/ client' = [client EXCEPT ![c].pc = "enqueue"]
      BY <2>3 DEF Create, Answer
    <3>2. \/ client'[d] = Idle \/ client'[d] = client[d]
          \/ d = c /\ client'[d].candidate = client[c].candidate
      BY <1>1, <3>1 DEF Requests
    <3>3. client[c].candidate \in Names
      BY <2>3 DEF Create, At, TypeOK
    <3>4. client'[d] = client[d] => client'[d].candidate \in Names
      BY <1>3 DEF TypeOK
    <3>5. client'[d] # Idle
      BY <1>3 DEF Idle
    <3> QED BY <3>2, <3>3, <3>4, <3>5
  <2>4. CASE Enqueue(c) \/ RequestDies(c)
    <3>1. client'[d] = client[d] \/ client'[d] = Idle
      BY <1>1, <2>4 DEF Enqueue, RequestDies, Answer
    <3> QED BY <1>3, <3>1 DEF Idle, TypeOK
  <2> QED BY <1>3, <2>1, <2>2, <2>3, <2>4 DEF Requesting, TypeOK
<1>4. CASE Deploying
  BY <1>4, <1>2 DEF Deploying, Confirm, Cancel, StartPrepare, StartBroadcast, Reconcile, NothingToDo,
              Detect, Simulate, Launch, EndBroadcast, WorkerDies, NotRequest, NotWorker
<1> QED BY <1>2, <1>3, <1>4, Parts DEF deployVars

LEMMA RequestsType ==
  ASSUME TypeOK, Next
  PROVE  client' \in [Clients -> Requests]
<1>1. client \in [Clients -> Requests]
  BY DEF TypeOK, Requests
<1>2. Idle \in Requests
  BY DEF Idle, Requests, Revisions, Names
<1>3. candidates \subseteq Names /\ None \in Names
  BY DEF TypeOK, Names
<1>4. CASE Finalization
  BY <1>1, <1>4 DEF Finalization, StartFinalize, Snapshot, CreateRevision, CompleteFinalize, Rollback,
                    FinalizerDies, deployVars
<1>5. ASSUME NEW r \in Revisions, Validating(r) PROVE UNCHANGED client
  BY <1>5 DEF Validating, RequestValidation, StartValidation, EndValidation, deployVars
<1>6. ASSUME NEW c \in Clients, Requesting(c)
      PROVE  client' \in [Clients -> Requests]
  <2>1. ASSUME NEW r \in Revisions, NEW p \in {plan} \cup Others, Ask(c, r, p)
        PROVE  client' \in [Clients -> Requests]
    <3>1. {Unnamed, None} \cup candidates \subseteq {Unnamed} \cup Names /\ p \in AnyPlan
      BY <1>3 DEF AnyPlan, TypeOK
    <3> QED BY <1>1, <2>1, <3>1 DEF Ask, Requests
  <2>2. CASE Look(c)
    <3>1. Meant(c) \in Names
      BY MeantName
    <3>2. client' = [client EXCEPT ![c] = Idle]
          \/ client' = [client EXCEPT ![c].pc = "create", ![c].candidate = Meant(c)]
      BY <2>2 DEF Look, Answer
    <3>3. [client[c] EXCEPT !.pc = "create", !.candidate = Meant(c)] \in Requests
      BY <1>1, <3>1 DEF Requests
    <3> QED BY <1>1, <1>2, <3>2, <3>3
  <2>3. CASE Create(c)
    BY <1>1, <1>2, <2>3 DEF Create, Answer, Requests
  <2>4. CASE Enqueue(c)
    BY <1>1, <1>2, <2>4 DEF Enqueue, Answer
  <2>5. CASE RequestDies(c)
    BY <1>1, <1>2, <2>5 DEF RequestDies, Answer
  <2> QED BY <1>1, <1>6, <2>1, <2>2, <2>3, <2>4, <2>5 DEF Requesting
<1>7. CASE Deploying
  <2>1. UNCHANGED client
    BY <1>7 DEF Deploying, Confirm, Cancel, StartPrepare, StartBroadcast, Reconcile, NothingToDo,
                Detect, Simulate, Launch, EndBroadcast, WorkerDies, NotRequest, NotWorker
  <2> QED BY <1>1, <2>1
<1> QED BY <1>1, <1>4, <1>5, <1>6, <1>7 DEF Next

\* Jobs, keys and the worker are about runs that are there.
LEMMA WorkType ==
  ASSUME TypeOK, AskInv, Next
  PROVE  /\ jobs' \subseteq {"prepare", "broadcast"} \X (DOMAIN runs')
         /\ worker' \in [pc : {"idle", "detect", "simulate", "launch", "confirm"},
                         run : {0} \cup DOMAIN runs]
         /\ worker'.pc # "idle" => worker'.run # 0
         /\ keys' \subseteq DOMAIN runs
         /\ candidates' \subseteq Rows
<1> DEFINE J(D) == {"prepare", "broadcast"} \X D
<1>1. /\ jobs \subseteq J(DOMAIN runs) /\ keys \subseteq DOMAIN runs
      /\ worker.pc # "idle" => worker.run \in DOMAIN runs
      /\ candidates \subseteq Rows
  BY DEF TypeOK
<1>2. DOMAIN runs \subseteq DOMAIN runs'
  BY RowsKept DEF Kept
<1>3. J(DOMAIN runs) \subseteq J(DOMAIN runs')
  BY <1>2
<1>4. jobs' \subseteq J(DOMAIN runs)
  <2>1. ASSUME NEW c \in Clients, Requesting(c) PROVE jobs' \subseteq J(DOMAIN runs)
    <3>1. CASE Look(c)
      BY <1>1, <3>1 DEF Look, WithKey
    <3>2. CASE Enqueue(c)
      BY <1>1, <3>2 DEF Enqueue, WithKey
    <3> QED BY <1>1, <2>1, <3>1, <3>2 DEF Requesting, Ask, Create, RequestDies
  <2>2. CASE Deploying
    <3>1. \/ jobs' \subseteq jobs
          \/ \E i \in DOMAIN runs : jobs' = jobs \cup {<<"broadcast", i>>}
      BY <2>2 DEF Deploying, Confirm, Cancel, StartPrepare, StartBroadcast, Reconcile, NothingToDo,
                  Detect, Simulate, Launch, EndBroadcast, WorkerDies, NotRequest, NotWorker
    <3> QED BY <1>1, <3>1
  <2> QED BY <1>1, <2>1, <2>2, Parts DEF deployVars
<1>5. keys' \subseteq DOMAIN runs /\ candidates' \subseteq Rows
  <2>1. CASE UNCHANGED <<keys, candidates>>
    BY <1>1, <2>1
  <2>2. CASE Deploying
    <3>1. CASE Detect
      <4>1. worker.run \in DOMAIN runs
        BY <1>1, <3>1 DEF Detect
      <4>2. keys' = keys \/ keys' = keys \cup {worker.run}
        BY <3>1 DEF Detect
      <4> DEFINE r == runs[worker.run].revision
      <4>3. candidates' = candidates \/ candidates' = candidates \cup Own(r)
        BY <3>1 DEF Detect
      <4>4. Own(r) \subseteq Rows
        BY <4>1, RowsType DEF Row, Own, Rows
      <4> QED BY <1>1, <4>1, <4>2, <4>3, <4>4
    <3>2. (keys' \subseteq keys /\ UNCHANGED candidates) \/ Detect
      BY <2>2 DEF Deploying, Confirm, Cancel, StartPrepare, StartBroadcast, Reconcile, NothingToDo,
                  Simulate, Launch, EndBroadcast, WorkerDies, NotRequest, NotWorker
    <3> QED BY <1>1, <3>1, <3>2
  <2> QED BY <2>1, <2>2, Parts DEF deployVars
<1>6. /\ worker' \in [pc : {"idle", "detect", "simulate", "launch", "confirm"},
                      run : {0} \cup DOMAIN runs]
      /\ worker'.pc # "idle" => worker'.run # 0
  <2>1. CASE UNCHANGED worker
    BY <2>1 DEF TypeOK
  <2>2. CASE Deploying
    <3>1. \/ UNCHANGED worker \/ worker' = Resting
          \/ \E i \in DOMAIN runs, pc \in {"detect", "launch"} : worker' = [pc |-> pc, run |-> i]
          \/ /\ worker.pc # "idle"
             /\ \E pc \in {"simulate", "confirm"} : worker' = [worker EXCEPT !.pc = pc]
      BY <2>2 DEF Deploying, Confirm, Cancel, StartPrepare, StartBroadcast, Reconcile, NothingToDo,
                  Detect, Simulate, Launch, EndBroadcast, WorkerDies, Done, NotRequest, NotWorker
    <3>2. 0 \notin DOMAIN runs
      BY DEF TypeOK
    <3> QED BY <2>1, <3>1, <3>2 DEF Resting, TypeOK
  <2> QED BY <2>1, <2>2, Parts DEF deployVars
<1> QED BY <1>3, <1>4, <1>5, <1>6

LEMMA NextType == ASSUME TypeOK, AskInv, FinalInv, Next PROVE TypeOK'
<1>1. DOMAIN runs \subseteq DOMAIN runs'
  BY RowsKept DEF Kept
<1> QED BY <1>1, RowsKept, FilesType, TestsType, RequestsType, NamedType, WorkType DEF TypeOK, Row, Tests, Requests

-----------------------------------------------------------------------------
(* What a deployment stands on stays as it was.                            *)

\* A revision that is fit to be deployed stays fit, and its files stay its own:
\* the finalizer that could replace them no longer has the change set.
LEMMA Stable ==
  ASSUME IInv, Next, NEW r \in Revisions, Exists(r)
  PROVE  /\ Exists(r)' /\ contentHash(r)' = contentHash(r)
         /\ Ready(r) => Ready(r)'
         /\ Ready(r) /\ Same(r) => Same(r)'
<1> USE DEF Exists, contentHash, Revisions
<1>1. plan' = plan /\ plan.safe \in Nat
  BY Parts, ReleaseConstants DEF IInv, TypeOK
<1>2. CASE UNCHANGED <<finalizeVars, validations>>
  BY <1>1, <1>2 DEF finalizeVars, Ready, Same, Passed, materialize
<1>3. CASE UNCHANGED finalizeVars /\ \E q \in Revisions : Validating(q)
  <2>1. Passed(r) => Passed(r)'
    <3> SUFFICES ASSUME NEW q \in Revisions, Validating(q), Passed(r) PROVE Passed(r)'
      BY <1>3
    <3> QED BY DEF Validating, RequestValidation, StartValidation, EndValidation, Passed, IInv, TypeOK
  <2> QED BY <1>1, <1>3, <2>1 DEF finalizeVars, Ready, Same, materialize
<1>4. CASE Finalization /\ UNCHANGED validations
  <2>1. Passed(r)' = Passed(r)
    BY <1>4 DEF Passed
  <2>2. /\ generated # None => UNCHANGED generated
        /\ Exists(r)' /\ contentHash(r)' = contentHash(r)
    BY <1>4 DEF Finalization, StartFinalize, Snapshot, CreateRevision, CompleteFinalize, Rollback,
                FinalizerDies
  <2>3. (r = "GENERATED" /\ plan.safe > 0 /\ set.status \in {"FINALIZED", "ROLLED_BACK"})
          => set'.status \in {"FINALIZED", "ROLLED_BACK"} /\ UNCHANGED artifact
    BY <1>4 DEF Finalization, StartFinalize, Snapshot, CreateRevision, CompleteFinalize, Rollback,
                FinalizerDies, IInv, FinalInv, TypeOK
  <2>4. (r = "GENERATED" /\ plan.safe = 0) => artifact = "git" /\ artifact' = "git"
    BY <1>4 DEF Finalization, StartFinalize, Snapshot, CreateRevision, CompleteFinalize, Rollback,
                FinalizerDies, IInv, FinalInv, TypeOK
  <2>5. Ready(r) => Ready(r)'
    BY <1>1, <2>1, <2>2, <2>3 DEF Ready
  <2>6. Ready(r) /\ Same(r) => Same(r)'
    BY <1>1, <2>2, <2>3, <2>4 DEF Ready, Same, materialize
  <2> QED BY <2>2, <2>5, <2>6
<1> QED BY <1>2, <1>3, <1>4, Parts

LEMMA EligibleIsReady ==
  ASSUME IInv, NEW r \in Revisions, Exists(r), evaluateEligibility(r, plan)
  PROVE  Ready(r)
BY DEF IInv, TypeOK, Exists, evaluateEligibility, Ready, Complete, Revisions

-----------------------------------------------------------------------------
(* The parts of the invariant.                                             *)

LEMMA FinalKept == ASSUME IInv, Next PROVE FinalInv'
<1>1. plan' = plan /\ None # "git" /\ None \notin Contents
  BY Parts, ReleaseConstants
<1>2. CASE UNCHANGED finalizeVars
  BY <1>1, <1>2 DEF finalizeVars, FinalInv, IInv
<1>3. CASE Finalization
  BY <1>1, <1>3 DEF Finalization, StartFinalize, Snapshot, CreateRevision, CompleteFinalize, Rollback,
                    FinalizerDies, NotFinalizing, IInv, FinalInv, TypeOK
<1> QED BY <1>2, <1>3, Parts

LEMMA TestKept == ASSUME IInv, Next PROVE TestInv'
<1>1. SUFFICES ASSUME NEW r \in Revisions, validations'[r] # None
               PROVE  /\ Exists(r)'
                      /\ validations'[r].status \in {"RUNNING", "COMPLETED"}
                           => validations'[r].tested = contentHash(r)'
  BY DEF TestInv
<1>2. CASE UNCHANGED validations
  BY <1>1, <1>2, Stable DEF IInv, TestInv
<1>3. ASSUME UNCHANGED finalizeVars, NEW q \in Revisions, Validating(q)
      PROVE  /\ Exists(r)'
             /\ validations'[r].status \in {"RUNNING", "COMPLETED"}
                  => validations'[r].tested = contentHash(r)'
  <2>1. UNCHANGED <<generated, artifact>>
    BY <1>3 DEF finalizeVars
  <2> QED BY <1>1, <1>3, <2>1 DEF Validating, RequestValidation, StartValidation, EndValidation,
             validation, IInv, TypeOK, TestInv, Exists, contentHash
<1> QED BY <1>2, <1>3, Parts

\* What a step does to a request that is being handled.
LEMMA ClientStep ==
  ASSUME TypeOK, Next, NEW d \in Clients
  PROVE  \/ client'[d] = client[d] \/ client'[d] = Idle
         \/ Exists(client'[d].revision) /\ client'[d].plan \in AnyPlan
         \/ /\ client[d].pc # "idle"
            /\ client'[d].revision = client[d].revision /\ client'[d].plan = client[d].plan
<1>1. client \in [Clients -> Requests]
  BY DEF TypeOK, Requests
<1>2. CASE UNCHANGED client
  BY <1>2
<1>3. ASSUME NEW c \in Clients, Requesting(c)
      PROVE  \/ client'[d] = client[d] \/ client'[d] = Idle
             \/ Exists(client'[d].revision) /\ client'[d].plan \in AnyPlan
             \/ /\ client[d].pc # "idle"
                /\ client'[d].revision = client[d].revision /\ client'[d].plan = client[d].plan
  <2>1. ASSUME NEW r \in Revisions, NEW p \in {plan} \cup Others, Ask(c, r, p)
        PROVE  client'[d] = client[d] \/ (Exists(client'[d].revision) /\ client'[d].plan \in AnyPlan)
    <3>1. Exists(r) /\ p \in AnyPlan
      BY <2>1 DEF Ask, AnyPlan, TypeOK
    <3> QED BY <1>1, <2>1, <3>1 DEF Ask
  <2>2. CASE Look(c)
    BY <1>1, <2>2 DEF Look, At, Answer, Requests
  <2>3. CASE Create(c)
    BY <1>1, <2>3 DEF Create, At, Answer, Requests
  <2>4. CASE Enqueue(c) \/ RequestDies(c)
    BY <1>1, <2>4 DEF Enqueue, RequestDies, Answer
  <2> QED BY <1>3, <2>1, <2>2, <2>3, <2>4 DEF Requesting
<1>4. CASE Deploying
  BY <1>4 DEF Deploying, Confirm, Cancel, StartPrepare, StartBroadcast, Reconcile, NothingToDo,
              Detect, Simulate, Launch, EndBroadcast, WorkerDies, NotRequest, NotWorker
<1> QED BY <1>2, <1>3, <1>4, Parts DEF deployVars

LEMMA AskKept == ASSUME IInv, Next PROVE AskInv'
<1> USE DEF IInv, Exists
<1>1. /\ runs' \in Seq(Row) /\ Kept(runs, runs') /\ plan' = plan
      /\ client' \in [Clients -> Requests] /\ client \in [Clients -> Requests]
  BY RowsKept, RequestsType, Parts DEF TypeOK, Requests
<1>2. \A r \in Revisions : Exists(r) => Exists(r)'
  BY Stable
<1>3. ASSUME NEW c \in Clients, client'[c].pc # "idle"
      PROVE  Exists(client[c].revision)' /\ client'[c].plan \in AnyPlan
  <2>1. client[c].revision \in Revisions /\ client'[c].revision \in Revisions
    BY <1>1, <1>3 DEF Requests
  <2> QED BY <1>2, <1>3, <2>1, ClientStep DEF AskInv, Idle
<1>4. ASSUME NEW i \in DOMAIN runs' PROVE Exists(runs[i].revision)'
  <2>1. CASE i \in DOMAIN runs
    BY <1>1, <1>2, <2>1, RowsType DEF Kept, Row, AskInv
  <2>2. CASE i \notin DOMAIN runs
    <3>1. PICK c \in Clients : At(c, "create") /\ runs' = Append(runs, NewRun(c))
      BY <1>4, <2>2, RunStep, NewRow
    <3>2. runs'[i] = NewRun(c)
      BY <1>4, <2>2, <3>1, NewRow
    <3>3. client[c].revision \in Revisions /\ Exists(client[c].revision)
      BY <1>1, <3>1 DEF At, AskInv, Requests
    <3> QED BY <1>2, <3>2, <3>3 DEF NewRun
  <2> QED BY <2>1, <2>2
<1> QED BY <1>3, <1>4 DEF AskInv

LEMMA KeyKept == ASSUME IInv, Next PROVE KeyInv'
<1> USE DEF IInv
<1>1. \A i \in DOMAIN runs : runs[i] \in Row
  BY RowsType
<1>2. CASE UNCHANGED runs
  BY <1>2 DEF KeyInv
<1>3. ASSUME NEW c \in Clients, WithKey(Asked(c)) = {}, runs' = Append(runs, NewRun(c))
      PROVE  KeyInv'
  <2>1. \A i \in DOMAIN runs : runs[i].key # Asked(c)
    BY <1>3 DEF WithKey
  <2>2. /\ NewRun(c).key = Asked(c) /\ NewRun(c).key.revision = NewRun(c).revision
        /\ NewRun(c).key.candidate = NewRun(c).candidate
    BY DEF NewRun, Asked, prepareKey
  <2>3. /\ DOMAIN runs' = DOMAIN runs \cup {Len(runs) + 1} /\ runs'[Len(runs) + 1] = NewRun(c)
        /\ \A i \in DOMAIN runs : runs'[i] = runs[i]
    BY <1>3, NewRow
  <2> QED BY <2>1, <2>2, <2>3 DEF KeyInv
<1>4. ASSUME NEW i \in DOMAIN runs, NEW s \in RunStatuses \ {"QUEUED"},
             runs' = [runs EXCEPT ![i].status = s]
      PROVE  KeyInv'
  <2>1. /\ DOMAIN runs' = DOMAIN runs
        /\ \A j \in DOMAIN runs : /\ runs'[j].key = runs[j].key /\ runs'[j].candidate = runs[j].candidate
                                  /\ runs'[j].revision = runs[j].revision
    BY <1>1, <1>4 DEF Row
  <2> QED BY <2>1 DEF KeyInv
<1>5. ASSUME NEW i \in DOMAIN runs, NEW x \in Foundry(Selected(i)),
             runs' = [runs EXCEPT ![i].candidate = x, ![i].status = "PREPARING"]
      PROVE  KeyInv'
  <2>1. /\ DOMAIN runs' = DOMAIN runs
        /\ \A j \in DOMAIN runs : /\ runs'[j].key = runs[j].key /\ runs'[j].revision = runs[j].revision
                                  /\ runs'[j].candidate = IF j = i THEN x ELSE runs[j].candidate
    BY <1>1, <1>5 DEF Row
  <2>2. runs[i].key.candidate # None /\ runs[i].key.candidate.revision = runs[i].revision
          => x = runs[i].key.candidate
    <3> SUFFICES ASSUME runs[i].key.candidate # None,
                        runs[i].key.candidate.revision = runs[i].revision
                 PROVE  x = runs[i].key.candidate
      OBVIOUS
    <3>1. runs[i].key.candidate \in Rows /\ runs[i].revision \in Revisions
      BY <1>1 DEF Row, RunKeys, Names
    <3>2. runs[i].key.candidate \notin Strangers
      BY <3>1, ReleaseConstants DEF Revisions
    <3>3. runs[i].key.candidate \in Own(runs[i].revision)
      BY <3>1, <3>2 DEF Rows, Own
    <3>4. runs[i].candidate = runs[i].key.candidate
      BY DEF KeyInv
    <3> QED BY <3>3, <3>4 DEF Foundry, Selected
  <2> QED BY <2>1, <2>2 DEF KeyInv
<1> QED BY <1>2, <1>3, <1>4, <1>5, RunStep

\* Where a run comes from that is past its preparation, or that the worker has, after a step.
LEMMA Origin ==
  ASSUME IInv, Next, NEW i \in DOMAIN runs'
  PROVE  /\ runs'[i].status \in Past \/ Engaged(i)' => i \in DOMAIN runs
         /\ runs'[i].status \in Past =>
              runs[i].status \in Past \/ (Engaged(i) /\ worker.pc # "detect")
         /\ Engaged(i)' => \/ runs[i].status \in Past \/ Engaged(i)
                           \/ /\ worker'.pc = "detect"
                              /\ evaluateEligibility(runs[i].revision, runs[i].plan)
         /\ Engaged(i)' /\ worker'.pc # "detect" =>
              \/ runs[i].status \in Past \/ (Engaged(i) /\ worker.pc # "detect")
              \/ Engaged(i) /\ Matches(runs[i].revision, materialize(runs[i].revision))
<1> USE DEF IInv
<1>1. Engaged(i)' => i \in DOMAIN runs
  BY WorkType DEF Engaged
<1> DEFINE Before == i \in DOMAIN runs /\ (runs[i].status \in Past \/ (Engaged(i) /\ worker.pc # "detect"))
<1>2. ASSUME runs'[i].status \in Past PROVE Before
  <2>1. CASE UNCHANGED runs
    BY <1>2, <2>1
  <2>2. ASSUME NEW c \in Clients, runs' = Append(runs, NewRun(c)) PROVE Before
    <3>1. NewRun(c).status \notin Past
      BY DEF NewRun, Past
    <3> QED BY <1>2, <2>2, <3>1, NewRow
  <2>3. ASSUME NEW j \in DOMAIN runs, NEW s \in RunStatuses, runs' = [runs EXCEPT ![j].status = s],
               s \in Past => runs[j].status \in Past \/ (Engaged(j) /\ worker.pc # "detect")
        PROVE  Before
    <3>1. i \in DOMAIN runs /\ runs'[i] = IF i = j THEN [runs[j] EXCEPT !.status = s] ELSE runs[i]
      BY <2>3, NewRow
    <3>2. runs[j] \in Row
      BY RowsType
    <3> QED BY <1>2, <2>3, <3>1, <3>2 DEF Row
  <2>4. ASSUME NEW j \in DOMAIN runs, NEW x,
               runs' = [runs EXCEPT ![j].candidate = x, ![j].status = "PREPARING"]
        PROVE  Before
    <3>1. /\ i \in DOMAIN runs
          /\ runs'[i] = IF i = j THEN [runs[j] EXCEPT !.candidate = x, !.status = "PREPARING"]
                        ELSE runs[i]
      BY <2>4, NewRow
    <3>2. runs[j] \in Row
      BY RowsType
    <3> QED BY <1>2, <3>1, <3>2 DEF Row, Past
  <2> HIDE DEF Before
  <2> QED BY <2>1, <2>2, <2>3, <2>4, RunStep
<1>3. CASE UNCHANGED worker
  BY <1>1, <1>2, <1>3 DEF Engaged
<1>4. CASE worker' # worker /\ worker'.pc # "idle"
  BY <1>1, <1>2, <1>4, WorkerStep DEF Engaged
<1> QED BY <1>1, <1>2, <1>3, <1>4 DEF Engaged

LEMMA ReadyKept == ASSUME IInv, Next PROVE ReadyInv'
<1> USE DEF IInv
<1>1. SUFFICES ASSUME NEW i \in DOMAIN runs', runs'[i].plan = plan'
               PROVE  /\ runs'[i].status \in Past \/ Engaged(i)' => Ready(runs[i].revision)'
                      /\ runs'[i].status \in Past \/ (Engaged(i)' /\ worker'.pc # "detect")
                           => Same(runs[i].revision)'
  BY DEF ReadyInv
<1>2. SUFFICES ASSUME runs'[i].status \in Past \/ Engaged(i)'
               PROVE  /\ Ready(runs[i].revision)'
                      /\ runs'[i].status \in Past \/ worker'.pc # "detect" => Same(runs[i].revision)'
  OBVIOUS
<1>3. /\ i \in DOMAIN runs /\ runs'[i].revision = runs[i].revision /\ runs[i].plan = plan
      /\ runs[i].revision \in Revisions /\ Exists(runs[i].revision)
  BY <1>1, <1>2, Origin, RowsKept, RowsType, Parts DEF Kept, Row, AskInv
<1>4. PICK r \in Revisions : r = runs[i].revision
  BY <1>3
<1>5. Ready(r)
  BY <1>2, <1>3, <1>4, Origin, EligibleIsReady DEF ReadyInv
<1>6. Engaged(i) /\ Matches(r, materialize(r)) => Same(r)
  BY DEF Matches, Same, materialize, contentHash, Revisions
<1>7. runs'[i].status \in Past \/ worker'.pc # "detect" => Same(r)
  BY <1>2, <1>3, <1>4, <1>6, Origin DEF ReadyInv
<1>8. Ready(r)' /\ (Same(r) => Same(r)')
  BY <1>3, <1>4, <1>5, Stable
<1>9. Ready(runs[i].revision)' = Ready(r)' /\ Same(runs[i].revision)' = Same(r)'
  BY <1>3, <1>4 DEF Ready, Passed, Same, materialize, contentHash
<1> QED BY <1>7, <1>8, <1>9

\* A script is started for the run that the worker has.
LEMMA LaunchStep ==
  ASSUME TypeOK, Next, NEW l \in launched', l \notin launched
  PROVE  /\ worker.pc = "launch" /\ l.run = worker.run /\ l.run \in DOMAIN runs
         /\ l.content = materialize(runs[l.run].revision)
         /\ runs'[l.run].status = "BROADCASTING"
<1>1. Launch
  <2>1. Deploying => UNCHANGED launched \/ Launch
    BY DEF Deploying, Confirm, Cancel, StartPrepare, StartBroadcast, Reconcile, NothingToDo,
           Detect, Simulate, EndBroadcast, WorkerDies, NotRequest, NotWorker
  <2> QED BY <2>1, Parts DEF deployVars
<1>2. worker.run \in DOMAIN runs
  BY <1>1 DEF Launch, TypeOK
<1>3. runs'[worker.run].status = "BROADCASTING"
  BY <1>1, <1>2, RowsType DEF Launch, Row
<1> QED BY <1>1, <1>2, <1>3 DEF Launch

LEMMA LaunchKept == ASSUME IInv, Next PROVE LaunchInv'
<1> USE DEF IInv
<1>1. SUFFICES ASSUME NEW l \in launched'
               PROVE  /\ l.run \in DOMAIN runs' /\ runs'[l.run].status # "QUEUED"
                      /\ runs'[l.run].plan = plan' =>
                           /\ Ready(runs[l.run].revision)'
                           /\ l.content = contentHash(runs[l.run].revision)'
  BY DEF LaunchInv
<1>2. /\ l.run \in DOMAIN runs
      /\ l \in launched \/ (l.run = worker.run /\ worker.pc = "launch"
                             /\ l.content = materialize(runs[l.run].revision))
      /\ l \notin launched => runs'[l.run].status # "QUEUED"
  BY LaunchStep DEF LaunchInv
<1>3. /\ l.run \in DOMAIN runs' /\ runs'[l.run].status # "QUEUED"
      /\ runs'[l.run].plan = runs[l.run].plan /\ plan' = plan
      /\ runs'[l.run].revision = runs[l.run].revision
  BY <1>2, RowsKept, Parts DEF Kept, LaunchInv
<1>4. PICK r \in Revisions : r = runs[l.run].revision
  BY <1>2, RowsType DEF Row
<1>5. Exists(r)
  BY <1>2, <1>4 DEF AskInv
<1>6. runs[l.run].plan = plan => Ready(r) /\ l.content = contentHash(r)
  BY <1>2, <1>4 DEF LaunchInv, ReadyInv, Engaged, Same
<1>7. runs[l.run].plan = plan => Ready(r)' /\ l.content = contentHash(r)'
  BY <1>5, <1>6, Stable
<1>8. Ready(runs[l.run].revision)' = Ready(r)' /\ contentHash(runs[l.run].revision)' = contentHash(r)'
  BY <1>3, <1>4 DEF Ready, Passed, contentHash
<1> QED BY <1>3, <1>7, <1>8

\* After a rollback the finalizer has nothing to do, and no run of the revision is
\* eligible: whatever is past the queue was so before.
LEMMA LateKept == ASSUME IInv, Next PROVE LateInv'
<1> USE DEF IInv
<1>1. worker'.pc # "idle" => runs'[worker'.run].status # "QUEUED"
  <2>1. Kept(runs, runs') /\ (worker.pc # "idle" => worker.run \in DOMAIN runs)
    BY RowsKept DEF TypeOK
  <2>2. CASE UNCHANGED worker
    BY <2>1, <2>2 DEF LateInv, Kept
  <2>3. ASSUME worker' # worker, worker'.pc # "idle" PROVE runs'[worker'.run].status # "QUEUED"
    <3> DEFINE i == worker'.run
    <3>1. CASE i \in DOMAIN runs /\ runs' = [runs EXCEPT ![i].status = Prepared(@)]
      BY <3>1, RowsType DEF Row, Prepared
    <3>2. CASE i \in DOMAIN runs /\ runs' = [runs EXCEPT ![i].status = "FUNDING"]
      BY <3>2, RowsType DEF Row
    <3>3. CASE worker.pc # "idle" /\ i = worker.run
      BY <2>1, <3>3 DEF LateInv, Kept
    <3> HIDE DEF i
    <3> QED BY <2>3, <3>1, <3>2, <3>3, WorkerStep DEF i
  <2> QED BY <2>2, <2>3
<1>2. CASE Rollback
  <2>1. /\ runs' = runs /\ worker' = worker /\ launched' = launched /\ plan' = plan
        /\ underway' = {i \in DOMAIN runs : runs[i].status # "QUEUED"}
    BY <1>2 DEF Rollback, deployVars
  <2> QED BY <2>1 DEF UnderwayInv, LateInv, LaunchInv, Engaged, Past
<1>3. CASE set.status = "ROLLED_BACK"
  <2>1. UNCHANGED <<set, underway>>
    <3>1. ~ Finalization
      BY <1>3 DEF Finalization, StartFinalize, Snapshot, CreateRevision, CompleteFinalize, Rollback,
                  FinalizerDies, FinalInv
    <3> QED BY <3>1, Parts DEF finalizeVars
  <2>2. Kept(runs, runs')
    BY RowsKept
  <2>3. ASSUME NEW i \in DOMAIN runs', Withdrawn(i)', runs'[i].status \in Past \/ Engaged(i)'
        PROVE  i \in underway
    <3>1. i \in DOMAIN runs /\ Withdrawn(i)
      BY <2>2, <2>3, Origin DEF Kept, Withdrawn
    <3>2. ~ evaluateEligibility(runs[i].revision, runs[i].plan)
      BY <1>3, <3>1 DEF Withdrawn, evaluateEligibility
    <3>3. runs[i].status \in Past \/ Engaged(i)
      BY <2>3, <3>2, Origin
    <3> QED BY <1>3, <3>1, <3>3 DEF LateInv, UnderwayInv
  <2>4. ASSUME NEW l \in launched', Withdrawn(l.run)' PROVE l.run \in underway
    <3>1. l.run \in DOMAIN runs
      BY LaunchStep DEF LaunchInv
    <3>2. Withdrawn(l.run)
      BY <2>2, <2>4, <3>1 DEF Kept, Withdrawn
    <3>3. l \in launched \/ Engaged(l.run)
      BY LaunchStep DEF Engaged
    <3> QED BY <1>3, <3>1, <3>2, <3>3 DEF LateInv, UnderwayInv
  <2> QED BY <1>1, <2>1, <2>3, <2>4 DEF LateInv, UnderwayInv
<1>4. set'.status = "ROLLED_BACK" => set.status = "ROLLED_BACK" \/ Rollback
  <2>1. CASE UNCHANGED finalizeVars
    BY <2>1 DEF finalizeVars
  <2>2. CASE Finalization
    BY <2>2 DEF Finalization, StartFinalize, Snapshot, CreateRevision, CompleteFinalize,
                FinalizerDies, TypeOK
  <2> QED BY <2>1, <2>2, Parts
<1> QED BY <1>1, <1>2, <1>3, <1>4 DEF LateInv, UnderwayInv

-----------------------------------------------------------------------------
(* The theorems.                                                           *)

LEMMA InitInv == Init => IInv
<1> SUFFICES ASSUME Init PROVE IInv
  OBVIOUS
<1>1. TypeOK
  BY ReleaseConstants DEF Init, TypeOK, SetStatuses, Complete, Revisions, Idle, Resting,
                           NotFinalizing, Names, Rows
<1>2. FinalInv /\ TestInv /\ AskInv
  BY DEF Init, FinalInv, TestInv, AskInv, Idle, NotFinalizing
<1>3. KeyInv /\ ReadyInv /\ LaunchInv /\ LateInv
  BY DEF Init, KeyInv, ReadyInv, LaunchInv, LateInv, UnderwayInv, Resting
<1> QED BY <1>1, <1>2, <1>3 DEF IInv

LEMMA NextInv == IInv /\ [Next]_releaseVars => IInv'
<1> SUFFICES ASSUME IInv, [Next]_releaseVars PROVE IInv'
  OBVIOUS
<1>1. CASE Next
  BY <1>1, NextType, FinalKept, TestKept, AskKept, KeyKept, ReadyKept, LaunchKept, LateKept DEF IInv
<1>2. CASE UNCHANGED releaseVars
  BY <1>2 DEF releaseVars, IInv, TypeOK, FinalInv, TestInv, AskInv, KeyInv, ReadyInv, LaunchInv,
              LateInv, UnderwayInv, Withdrawn, Ready, Same, Passed, Engaged, Exists, materialize,
              contentHash
<1> QED BY <1>1, <1>2

\* The conjunction that everything below follows from holds in every state.
THEOREM Invariance == Spec => []IInv
BY InitInv, NextInv, PTL DEF Spec

\* Every row, job and handler stays within its type.
THEOREM TypeCorrect == Spec => []TypeOK
<1>1. IInv => TypeOK
  BY DEF IInv
<1> QED BY <1>1, Invariance, PTL

\* A script that is started from the plan of its change set runs on files that were
\* validated, that are what the revision's hash says, after a complete review.
THEOREM DeployedWasValidated == Spec => []DeployedIsValidated
<1>1. IInv => DeployedIsValidated
  <2> SUFFICES ASSUME IInv, NEW l \in launched, runs[l.run].plan = plan
               PROVE  LET r == runs[l.run].revision
                          v == validations[r]
                      IN /\ v.outcome = "PASSED" /\ v.tested = l.content
                         /\ l.content = contentHash(r)
                         /\ r = "GENERATED" => generated.completeness = "COMPLETE"
    BY DEF DeployedIsValidated
  <2>1. runs[l.run].revision \in Revisions
    BY RowsType DEF IInv, LaunchInv, Row
  <2> QED BY <2>1 DEF IInv, LaunchInv, Ready, Passed, TestInv
<1> QED BY <1>1, Invariance, PTL

\* After a rollback nothing of the revision is started that was still waiting then.
THEOREM RollbackStops == Spec => []RollbackStopsWhatWaits
<1>1. IInv => RollbackStopsWhatWaits
  BY DEF IInv, LateInv, UnderwayInv, Withdrawn, RollbackStopsWhatWaits
<1> QED BY <1>1, Invariance, PTL

\* Two runs of a revision for one script differ in whether the request knew the script, unless
\* one of them was asked for by the name of another revision's candidate.
THEOREM OnlyNamesDouble == Spec => []DoubledByNameOnly
<1>1. IInv => DoubledByNameOnly
  <2> SUFFICES ASSUME IInv, NEW i \in DOMAIN runs, NEW j \in DOMAIN runs, i # j,
                      runs[i].revision = runs[j].revision, runs[i].candidate = runs[j].candidate,
                      ~ Misnamed(i), ~ Misnamed(j)
               PROVE  (runs[i].key.candidate = None) # (runs[j].key.candidate = None)
    BY DEF DoubledByNameOnly
  <2>1. runs[i].key \in RunKeys /\ runs[j].key \in RunKeys /\ runs[i].key # runs[j].key
    BY RowsType DEF IInv, KeyInv, Row
  <2>2. runs[i].key.revision = runs[j].key.revision
    BY DEF IInv, KeyInv
  <2>3. runs[i].key.candidate # runs[j].key.candidate
    BY <2>1, <2>2 DEF RunKeys
  <2> QED BY <2>3 DEF IInv, KeyInv, Misnamed
<1> QED BY <1>1, Invariance, PTL
=============================================================================
