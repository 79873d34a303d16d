------------------------- MODULE DeploymentProofs -------------------------
(***************************************************************************)
(* What holds of a deployment run for every fleet, every number of keys    *)
(* and transactions, and every failure the model knows.                    *)
(*                                                                         *)
(* The first part is about any fleet and any fault: types, the keys, the   *)
(* confirmation and the rows, with the inductive invariant IInv.  The      *)
(* second is about one worker process that keeps its locks (Staging): the  *)
(* boundary, the deployer column, the verdicts and the refinement of       *)
(* BroadcastOnce, with SInv beside IInv.                                   *)
(***************************************************************************)
EXTENDS DeploymentProperties, TLAPS

-----------------------------------------------------------------------------
(* The inductive invariant.                                                *)

\* Where a broadcast handler stands before and after it has started a script.
BeforeLaunch == {"toFunding", "funding", "toBroadcasting"}
AfterLaunch ==
  ScriptTry \cup ConfirmTry
    \cup {"caught", "toRecon", "aborting", "written", "finally", "finallyThrow"}

\* getCredential found a key before the handler went on.
KeyHeld == \A w \in Workers : worker[w].pc \in BeforeLaunch => creds[w] \in Creds

\* No two workers hold the same key, and a key a script was started with is
\* held only until the finally block of the handler that started it.
KeysInv ==
  /\ KeyHeld
  /\ \A w \in Workers : creds[w] # None => creds[w] \in issued
  /\ \A v, w \in Workers : v # w /\ creds[v] = creds[w] => creds[v] = None
  /\ launched \subseteq issued
  /\ \A w \in Workers :
       creds[w] \in launched
         => worker[w].handler = "broadcast" /\ worker[w].pc \in AfterLaunch

\* A broadcast job exists, in whatever form, only after a confirmation, and
\* only such a job takes a handler to the launch of a script.
ConfirmInv ==
  /\ "broadcast" \in toEnqueue => confirmed
  /\ jobs["broadcast"].state # "none" => confirmed
  /\ \A w \in Workers :
       worker[w].pc # "idle" /\ worker[w].job = "broadcast" => confirmed
  /\ \A w \in Workers :
       worker[w].pc \in BeforeLaunch
         => worker[w].job = "broadcast" /\ worker[w].handler = "broadcast"
  /\ launched # {} => confirmed

IInv == TypeOK /\ KeysInv /\ ConfirmInv

-----------------------------------------------------------------------------
(* Type correctness.  The helper actions first: what each of them does to  *)
(* the worker it moves.                                                    *)

\* Moving a handler on only changes where that one handler stands.
LEMMA GotoEffect ==
  ASSUME worker \in [Workers -> WorkerStates],
         NEW w \in Workers, NEW pc \in Pcs, NEW seen \in SeenValues,
         Goto(w, pc, seen)
  PROVE  /\ worker' \in [Workers -> WorkerStates]
         /\ worker'[w].pc = pc
         /\ worker'[w].job = worker[w].job
         /\ worker'[w].handler = worker[w].handler
         /\ \A v \in Workers \ {w} : worker'[v] = worker[v]
BY DEF Goto, WorkerStates

\* So does moving on within a loop over transactions.
LEMMA LoopEffect ==
  ASSUME worker \in [Workers -> WorkerStates],
         NEW w \in Workers, NEW pc \in Pcs, NEW left \in SUBSET Tx,
         NEW unknown \in BOOLEAN,
         Loop(w, pc, left, unknown)
  PROVE  /\ worker' \in [Workers -> WorkerStates]
         /\ worker'[w].pc = pc
         /\ worker'[w].job = worker[w].job
         /\ worker'[w].handler = worker[w].handler
         /\ \A v \in Workers \ {w} : worker'[v] = worker[v]
BY DEF Loop, WorkerStates

\* So does entering such a loop.
LEMMA EnterLoopEffect ==
  ASSUME worker \in [Workers -> WorkerStates],
         NEW w \in Workers, NEW pc \in Pcs, NEW seen \in SeenValues,
         NEW left \in SUBSET Tx,
         worker' = [worker EXCEPT ![w] =
           [@ EXCEPT !.pc = pc, !.seen = seen, !.left = left]]
  PROVE  /\ worker' \in [Workers -> WorkerStates]
         /\ worker'[w].pc = pc
         /\ worker'[w].job = worker[w].job
         /\ worker'[w].handler = worker[w].handler
         /\ \A v \in Workers \ {w} : worker'[v] = worker[v]
BY DEF WorkerStates

\* A step that only moves a handler on keeps every type.
LEMMA ContinueType ==
  ASSUME TypeOK, NEW w \in Workers, NEW pc \in Pcs, NEW seen \in SeenValues,
         worker[w].pc # "idle",
         Continue(w, pc, seen)
  PROVE  TypeOK'
<1>1. /\ worker' \in [Workers -> WorkerStates]
      /\ worker'[w].job = worker[w].job
      /\ \A v \in Workers \ {w} : worker'[v] = worker[v]
  BY GotoEffect DEF TypeOK, Continue, Step
<1>2. QED
  BY <1>1 DEF TypeOK, Continue, Step, dbVars, apiVars, worldVars

\* So does a status write, given the types of what it may leave open.
LEMMA WriteType ==
  ASSUME TypeOK, NEW w \in Workers, NEW to \in Statuses, NEW pc \in Pcs,
         NEW seen \in SeenValues,
         worker[w].pc # "idle",
         Write(w, to, pc, seen),
         deployer' \in Creds \cup {None}, expected' \in Nat,
         issued' \in SUBSET Creds, running' \in SUBSET Creds,
         net' \in [Tx -> Fates], launched' \in SUBSET Creds
  PROVE  TypeOK'
<1>1. /\ worker' \in [Workers -> WorkerStates]
      /\ worker'[w].job = worker[w].job
      /\ \A v \in Workers \ {w} : worker'[v] = worker[v]
  BY GotoEffect DEF TypeOK, Write
<1>2. QED
  BY <1>1 DEF TypeOK, Write, apiVars

\* Taking a waiting job puts the worker into the handler's first state.
LEMMA TakeEffect ==
  ASSUME worker \in [Workers -> WorkerStates], jobs \in [JobNames -> JobStates],
         NEW w \in Workers, NEW j \in JobNames,
         NEW handler \in {"none", "prepare", "broadcast", "reconcile"},
         NEW pc \in Pcs, NEW seen \in SeenValues,
         Take(w, j, handler, pc, seen)
  PROVE  /\ worker' \in [Workers -> WorkerStates]
         /\ jobs' \in [JobNames -> JobStates]
         /\ worker[w].pc = "idle"
         /\ worker'[w].pc = pc
         /\ worker'[w].job = j
         /\ worker'[w].handler = handler
         /\ \A v \in Workers \ {w} : worker'[v] = worker[v]
         /\ jobs[j].state # "none"
         /\ \A k \in JobNames : jobs'[k].state = "none" <=> jobs[k].state = "none"
<1>1. worker' \in [Workers -> WorkerStates]
  BY DEF Take, WorkerStates, Idle
<1>2. jobs' \in [JobNames -> JobStates]
  BY DEF Take, JobStates
<1>3. QED
  BY <1>1, <1>2 DEF Take, At, WorkerStates, Idle, JobStates

LEMMA TakeType ==
  ASSUME TypeOK, NEW w \in Workers, NEW j \in JobNames,
         NEW handler \in {"none", "prepare", "broadcast", "reconcile"},
         NEW pc \in Pcs, NEW seen \in SeenValues,
         Take(w, j, handler, pc, seen),
         UNCHANGED <<dbVars, apiVars, creds, worldVars, crashes>>
  PROVE  TypeOK'
<1>1. /\ worker' \in [Workers -> WorkerStates]
      /\ jobs' \in [JobNames -> JobStates]
      /\ worker'[w].job = j
      /\ \A v \in Workers \ {w} : worker'[v] = worker[v]
  BY TakeEffect DEF TypeOK
<1>2. QED
  BY <1>1 DEF TypeOK, dbVars, apiVars, worldVars

\* Settling a job frees its worker.
LEMMA SettleEffect ==
  ASSUME worker \in [Workers -> WorkerStates], jobs \in [JobNames -> JobStates],
         NEW w \in Workers, worker[w].job \in JobNames,
         NEW state \in {"waiting", "done"}, NEW attempts \in Nat,
         Settle(w, state, attempts)
  PROVE  /\ worker' \in [Workers -> WorkerStates]
         /\ jobs' \in [JobNames -> JobStates]
         /\ worker'[w] = Idle
         /\ \A v \in Workers \ {w} : worker'[v] = worker[v]
         /\ \A k \in JobNames : jobs'[k].state = "none" <=> jobs[k].state = "none"
<1>1. worker' \in [Workers -> WorkerStates]
  BY DEF Settle, WorkerStates, Idle, Pcs, SeenValues
<1>2. jobs' \in [JobNames -> JobStates]
  BY DEF Settle, JobStates
<1>3. QED
  BY <1>1, <1>2 DEF Settle, JobStates

\* A journal names transactions.
LEMMA JournalOfTx == \A c : JournalOf(c) \in SUBSET Tx
BY DEF JournalOf, Journaled, Tx

-----------------------------------------------------------------------------
LEMMA TypeInit == Init => TypeOK
<1> SUFFICES ASSUME Init PROVE TypeOK
  OBVIOUS
<1>1. Idle \in WorkerStates /\ Idle.pc = "idle"
  BY DEF Idle, WorkerStates, Pcs, SeenValues
<1>2. NewJob \in JobStates
  BY DEF NewJob, JobStates
<1>3. "ABSENT" \in TxStatuses /\ "absent" \in Fates
  BY DEF TxStatuses, Fates
<1>4. QED
  BY <1>1, <1>2, <1>3 DEF Init, TypeOK

\* The API handlers and the queue keep every type.
LEMMA ApiType == ASSUME TypeOK, ApiStep PROVE TypeOK'
<1> USE DEF TypeOK, dbVars, apiVars, workerVars, worldVars
<1>1. CASE RequestPrepare
  BY <1>1 DEF RequestPrepare, Statuses, JobNames
<1>2. CASE RequestConfirm
  BY <1>2 DEF RequestConfirm, JobNames
<1>3. CASE RequestReconcile
  BY <1>3 DEF RequestReconcile, JobNames, JobStates
<1>4. CASE RequestCancel
  BY <1>4 DEF RequestCancel
<1>5. CASE WriteCancelled
  BY <1>5 DEF WriteCancelled, Statuses
<1>6. QED
  BY <1>1, <1>2, <1>3, <1>4, <1>5 DEF ApiStep

LEMMA QueueType == ASSUME TypeOK, NEW j \in JobNames, QueueStep(j) PROVE TypeOK'
<1> USE DEF TypeOK, dbVars, apiVars, workerVars, worldVars
<1>1. CASE Enqueue(j)
  BY <1>1 DEF Enqueue, JobStates
<1>2. CASE DropEnqueue(j)
  BY <1>2 DEF DropEnqueue
<1>3. CASE StalledCheck(j)
  <2>1. jobs' \in [JobNames -> JobStates]
    <3>1. jobs[j] \in JobStates /\ jobs[j].stalls + 1 \in Nat
      BY DEF JobStates
    <3>2. /\ [jobs[j] EXCEPT !.state = "waiting", !.holder = None,
                             !.stalls = jobs[j].stalls + 1] \in JobStates
          /\ [jobs[j] EXCEPT !.state = "done", !.holder = None] \in JobStates
      BY <3>1 DEF JobStates
    <3>3. QED
      BY <1>3, <3>1, <3>2 DEF StalledCheck
  <2>2. QED
    BY <1>3, <2>1 DEF StalledCheck
<1>4. CASE Evict(j)
  BY <1>4 DEF Evict, JobStates, NewJob
<1>5. QED
  BY <1>1, <1>2, <1>3, <1>4 DEF QueueStep

\* So do the steps of the prepare handler.
LEMMA PrepareType ==
  ASSUME TypeOK, NEW w \in Workers, PrepareStep(w)
  PROVE  TypeOK'
<1> USE DEF At, Pcs, PrepareTry, SeenValues, Statuses
<1>0. status \in SeenValues
  BY DEF TypeOK
<1>1. CASE StartPrepare(w)
  BY <1>1, TakeType DEF StartPrepare, JobNames
<1>2. CASE MarkChecking(w)
  BY <1>2, WriteType DEF MarkChecking, TypeOK, worldVars
<1>3. CASE CheckEligibility(w)
  BY <1>0, <1>3, ContinueType DEF CheckEligibility
<1>4. CASE MarkPreparing(w)
  BY <1>4, WriteType DEF MarkPreparing, TypeOK, worldVars
<1>5. CASE Materialize(w)
  <2>1. /\ worker' \in [Workers -> WorkerStates]
        /\ worker'[w].job = worker[w].job
        /\ \A v \in Workers \ {w} : worker'[v] = worker[v]
    BY <1>5, GotoEffect DEF Materialize, Step, TypeOK
  <2>2. QED
    BY <1>5, <2>1 DEF Materialize, Step, TypeOK, dbVars, apiVars
<1>6. CASE IssueCredential(w)
  <2>1. /\ worker' \in [Workers -> WorkerStates]
        /\ worker'[w].job = worker[w].job
        /\ \A v \in Workers \ {w} : worker'[v] = worker[v]
    BY <1>6, GotoEffect DEF IssueCredential, TypeOK
  <2>2. QED
    BY <1>6, <2>1 DEF IssueCredential, TypeOK, apiVars
<1>7. CASE MarkSimulating(w)
  BY <1>7, WriteType DEF MarkSimulating, TypeOK, worldVars
<1>8. CASE Simulate(w)
  BY <1>8, ContinueType DEF Simulate
<1>9. CASE MarkPrepared(w)
  <2>1. expected' \in Nat
    BY <1>9, ConstantsOK DEF MarkPrepared
  <2>2. QED
    BY <1>9, <2>1, WriteType DEF MarkPrepared, TypeOK, worldVars
<1>10. CASE CatchPrepare(w)
  BY <1>0, <1>10, ContinueType DEF CatchPrepare
<1>11. QED
  BY <1>1, <1>2, <1>3, <1>4, <1>5, <1>6, <1>7, <1>8, <1>9, <1>10 DEF PrepareStep

\* So does the broadcast handler, which holds a key whenever a script is about
\* to be started with it.
LEMMA BroadcastType ==
  ASSUME TypeOK, KeyHeld, NEW w \in Workers, BroadcastStep(w)
  PROVE  TypeOK'
<1> USE DEF At, Pcs, PrepareTry, ScriptTry, ConfirmTry, SeenValues, Statuses
<1>0. status \in SeenValues
  BY DEF TypeOK
<1>1. CASE StartBroadcast(w)
  BY <1>0, <1>1, TakeType DEF StartBroadcast, JobNames
<1>2. CASE MarkFunding(w)
  BY <1>2, WriteType DEF MarkFunding, TypeOK, worldVars
<1>3. CASE Fund(w)
  BY <1>3, ContinueType DEF Fund
<1>4. CASE CatchBeforeBroadcast(w)
  BY <1>0, <1>4, ContinueType DEF CatchBeforeBroadcast
<1>5. CASE MarkBroadcasting(w)
  <2>1. creds[w] \in Creds
    BY <1>5 DEF MarkBroadcasting, KeyHeld, BeforeLaunch
  <2>2. QED
    BY <1>5, <2>1, WriteType DEF MarkBroadcasting, TypeOK
<1>6. CASE ScriptReturns(w)
  <2>1. JournalOf(creds[w]) \in SUBSET Tx
    BY JournalOfTx
  <2>2. PICK result \in {"OK", "ERROR", "TIMEOUT"} :
          /\ running' = IF result = "TIMEOUT" THEN running ELSE running \ {creds[w]}
          /\ worker' = [worker EXCEPT ![w] =
               [@ EXCEPT !.pc = "recording", !.seen = result,
                         !.left = JournalOf(creds[w])]]
    BY <1>6 DEF ScriptReturns
  <2>3. /\ worker' \in [Workers -> WorkerStates]
        /\ worker'[w].job = worker[w].job
        /\ \A v \in Workers \ {w} : worker'[v] = worker[v]
    BY <2>1, <2>2, EnterLoopEffect DEF TypeOK
  <2>4. QED
    BY <1>6, <2>2, <2>3 DEF ScriptReturns, TypeOK, dbVars, apiVars
<1>7. CASE RecordTransaction(w)
  <2>1. PICK t \in worker[w].left :
          /\ txRows' = [txRows EXCEPT ![t] = "SUBMITTED"]
          /\ Loop(w, worker[w].pc, worker[w].left \ {t}, FALSE)
    BY <1>7 DEF RecordTransaction
  <2>2. worker[w].left \ {t} \in SUBSET Tx /\ worker[w].pc \in Pcs
    BY DEF TypeOK, WorkerStates
  <2>3. /\ worker' \in [Workers -> WorkerStates]
        /\ worker'[w].job = worker[w].job
        /\ \A v \in Workers \ {w} : worker'[v] = worker[v]
    BY <2>1, <2>2, LoopEffect DEF TypeOK
  <2>4. txRows' \in [Tx -> TxStatuses]
    BY <2>1 DEF TypeOK, TxStatuses
  <2>5. QED
    BY <1>7, <2>3, <2>4 DEF RecordTransaction, TypeOK, apiVars, worldVars
<1>8. CASE ScriptOutcome(w)
  BY <1>8, ContinueType DEF ScriptOutcome
<1>9. CASE MarkSubmitted(w)
  BY <1>9, WriteType DEF MarkSubmitted, TypeOK, worldVars
<1>10. CASE LoadArtifacts(w)
  <2>1. PICK named \in Artifacts(w) :
          \/ Goto(w, "aborting", "BROADCASTING")
          \/ Loop(w, "artifacts", named, FALSE)
    BY <1>10 DEF LoadArtifacts
  <2>2. named \in SUBSET Tx
    BY JournalOfTx DEF Artifacts, Tx
  <2>3. /\ worker' \in [Workers -> WorkerStates]
        /\ worker'[w].job = worker[w].job
        /\ \A v \in Workers \ {w} : worker'[v] = worker[v]
    BY <2>1, <2>2, LoopEffect, GotoEffect DEF TypeOK
  <2>4. QED
    BY <1>10, <2>3 DEF LoadArtifacts, TypeOK, dbVars, apiVars, worldVars
<1>11. QED
  BY <1>1, <1>2, <1>3, <1>4, <1>5, <1>6, <1>7, <1>8, <1>9, <1>10 DEF BroadcastStep

\* So do the reconcile handler and the shared confirmation.
LEMMA ReconcileType ==
  ASSUME TypeOK, NEW w \in Workers, ReconcileStep(w)
  PROVE  TypeOK'
<1> USE DEF At, Seen, Pcs, PrepareTry, ScriptTry, ConfirmTry, SeenValues, Statuses
<1>0. /\ status \in SeenValues
      /\ worker[w].seen \in SeenValues
      /\ AfterTry(w) \in {"finally", "returning"}
      /\ AfterThrow(w) \in {"finallyThrow", "throwing"}
  BY DEF TypeOK, WorkerStates, AfterTry, AfterThrow
<1>1. CASE StartReconcile(w)
  BY <1>1, TakeType DEF StartReconcile, JobNames
<1>2. CASE Reconcile(w)
  BY <1>0, <1>2, ContinueType DEF Reconcile
<1>3. CASE MarkReconciliation(w)
  BY <1>0, <1>3, ContinueType, WriteType DEF MarkReconciliation, TypeOK, worldVars
<1>4. CASE ListTransactions(w)
  <2>1. Recorded \in SUBSET Tx
    BY DEF Recorded
  <2>2. /\ worker' \in [Workers -> WorkerStates]
        /\ worker'[w].job = worker[w].job
        /\ \A v \in Workers \ {w} : worker'[v] = worker[v]
    BY <1>4, <2>1, LoopEffect DEF TypeOK, ListTransactions
  <2>3. QED
    BY <1>4, <2>2 DEF ListTransactions, TypeOK, dbVars, apiVars, worldVars
<1>5. CASE LookUpReceipt(w)
  <2>a. PICK t \in worker[w].left : \E answer \in Receipts(t) :
          /\ txRows' = [txRows EXCEPT ![t] = answer]
          /\ Loop(w, "receipts", worker[w].left \ {t},
                  worker[w].unknown \/ answer = "UNKNOWN")
    BY <1>5 DEF LookUpReceipt
  <2>1. PICK answer \in Receipts(t) :
          /\ txRows' = [txRows EXCEPT ![t] = answer]
          /\ Loop(w, "receipts", worker[w].left \ {t},
                  worker[w].unknown \/ answer = "UNKNOWN")
    BY <2>a
  <2>2. worker[w].left \ {t} \in SUBSET Tx /\ worker[w].unknown \in BOOLEAN
    BY DEF TypeOK, WorkerStates
  <2>3. (worker[w].unknown \/ answer = "UNKNOWN") \in BOOLEAN
    BY Zenon
  <2>4. /\ worker' \in [Workers -> WorkerStates]
        /\ worker'[w].job = worker[w].job
        /\ \A v \in Workers \ {w} : worker'[v] = worker[v]
    BY <2>1, <2>2, <2>3, LoopEffect DEF TypeOK
  <2>5. answer \in TxStatuses
    BY <2>1 DEF Receipts, TxStatuses
  <2>6. txRows' \in [Tx -> TxStatuses]
    BY <2>1, <2>5 DEF TypeOK
  <2>7. QED
    BY <1>5, <2>4, <2>6 DEF LookUpReceipt, TypeOK, apiVars, worldVars
<1>6. CASE ReceiptsDone(w)
  BY <1>0, <1>6, ContinueType DEF ReceiptsDone
<1>7. CASE MarkUnknown(w)
  BY <1>0, <1>7, ContinueType, WriteType DEF MarkUnknown, TypeOK, worldVars
<1>8. CASE MarkConfirming(w)
  BY <1>8, WriteType DEF MarkConfirming, TypeOK, worldVars
<1>9. CASE ReadAfterConfirm(w)
  BY <1>9, ContinueType DEF ReadAfterConfirm
<1>10. CASE MarkVerifying(w)
  BY <1>10, WriteType DEF MarkVerifying, TypeOK, worldVars
<1>11. CASE PostDeployChecks(w)
  BY <1>11, ContinueType DEF PostDeployChecks
<1>12. CASE WriteVerdict(w)
  BY <1>12, WriteType DEF WriteVerdict, TypeOK, worldVars
<1>13. CASE CatchAfterBroadcast(w)
  BY <1>13, ContinueType DEF CatchAfterBroadcast
<1>14. CASE Caught(w)
  BY <1>0, <1>14, ContinueType DEF Caught
<1>15. QED
  BY <1>1, <1>2, <1>3, <1>4, <1>5, <1>6, <1>7, <1>8, <1>9, <1>10, <1>11,
     <1>12, <1>13, <1>14 DEF ReconcileStep

\* The end of a handler, and what goes wrong around it.
LEMMA EndType ==
  ASSUME TypeOK, NEW w \in Workers, EndStep(w)
  PROVE  TypeOK'
<1> USE DEF At, Seen, Pcs, SeenValues
<1>0. /\ AfterTry(w) \in {"finally", "returning"}
      /\ AfterThrow(w) \in {"finallyThrow", "throwing"}
  BY DEF AfterTry, AfterThrow
<1>1. CASE LastWriteAnswered(w)
  <2>1. Continue(w, AfterTry(w), "NONE")
    BY <1>1 DEF LastWriteAnswered, Continue, Step
  <2>2. QED
    BY <1>0, <1>1, <2>1, ContinueType DEF LastWriteAnswered
<1>2. CASE Fail(w)
  <2>1. PICK pc \in {"finally", "returning"} : Goto(w, pc, "NONE")
    BY <1>2 DEF Fail
  <2>2. /\ worker' \in [Workers -> WorkerStates]
        /\ worker'[w].job = worker[w].job
        /\ \A v \in Workers \ {w} : worker'[v] = worker[v]
    BY <2>1, GotoEffect DEF TypeOK
  <2>3. QED
    BY <1>2, <2>2 DEF Fail, TypeOK, Statuses, apiVars, worldVars
<1>3. CASE Finally(w)
  <2>1. PICK pc \in {"returning", "throwing"} : Goto(w, pc, "NONE")
    BY <1>3 DEF Finally
  <2>2. /\ worker' \in [Workers -> WorkerStates]
        /\ worker'[w].job = worker[w].job
        /\ \A v \in Workers \ {w} : worker'[v] = worker[v]
    BY <2>1, GotoEffect DEF TypeOK
  <2>3. QED
    BY <1>3, <2>2 DEF Finally, TypeOK, dbVars, apiVars
<1>4. ASSUME NEW state \in {"waiting", "done"}, NEW attempts \in Nat,
             worker[w].pc # "idle", Settle(w, state, attempts),
             UNCHANGED <<dbVars, apiVars, creds, worldVars, crashes>>
      PROVE  TypeOK'
  <2>1. worker[w].job \in JobNames
    BY <1>4 DEF TypeOK
  <2>2. /\ worker' \in [Workers -> WorkerStates]
        /\ jobs' \in [JobNames -> JobStates]
        /\ worker'[w] = Idle
        /\ \A v \in Workers \ {w} : worker'[v] = worker[v]
    BY <1>4, <2>1, SettleEffect DEF TypeOK
  <2>3. QED
    BY <1>4, <2>2 DEF TypeOK, Idle, dbVars, apiVars, worldVars
<1>5. worker[w].pc # "idle" => jobs[worker[w].job].attempts \in Nat
  BY DEF TypeOK, JobStates
<1>6. CASE Return(w)
  BY <1>4, <1>5, <1>6 DEF Return
<1>7. CASE Throw(w)
  BY <1>4, <1>5, <1>7 DEF Throw
<1>8. QED
  BY <1>1, <1>2, <1>3, <1>6, <1>7 DEF EndStep

LEMMA FaultType ==
  ASSUME TypeOK, NEW w \in Workers, DatabaseLost(w) \/ Crash(w)
  PROVE  TypeOK'
<1>1. CASE DatabaseLost(w)
  BY <1>1, ContinueType DEF DatabaseLost, Pcs, SeenValues
<1>2. CASE Crash(w)
  <2>1. Idle \in WorkerStates /\ Idle.pc = "idle"
    BY DEF Idle, WorkerStates, Pcs, SeenValues
  <2>2. QED
    BY <1>2, <2>1 DEF Crash, TypeOK, dbVars, apiVars, worldVars
<1>3. QED
  BY <1>1, <1>2

LEMMA WorldType ==
  ASSUME TypeOK, (\E c \in Creds : SendRawTransaction(c)) \/ ValidationReaps
  PROVE  TypeOK'
<1>1. ASSUME NEW c \in Creds, SendRawTransaction(c)
      PROVE  TypeOK'
  <2>1. PICK i \in 1 .. MaxTx, fate \in Fates \ {"absent"} :
          net' = [net EXCEPT ![<<c, i>>] = fate]
    BY <1>1 DEF SendRawTransaction
  <2>2. net' \in [Tx -> Fates]
    BY <2>1 DEF TypeOK
  <2>3. QED
    BY <1>1, <2>2 DEF SendRawTransaction, TypeOK, dbVars, apiVars, workerVars
<1>2. CASE ValidationReaps
  BY <1>2 DEF ValidationReaps, TypeOK, dbVars, apiVars, workerVars
<1>3. QED
  BY <1>1, <1>2

LEMMA TypeStep == TypeOK /\ KeyHeld /\ [Next]_vars => TypeOK'
<1> SUFFICES ASSUME TypeOK, KeyHeld, [Next]_vars PROVE TypeOK'
  OBVIOUS
<1>1. CASE UNCHANGED vars
  BY <1>1 DEF TypeOK, vars, dbVars, apiVars, workerVars, worldVars
<1>2. CASE ApiStep
  BY <1>2, ApiType
<1>3. ASSUME NEW j \in JobNames, QueueStep(j) PROVE TypeOK'
  BY <1>3, QueueType
<1>4. ASSUME NEW w \in Workers, WorkerStep(w) PROVE TypeOK'
  BY <1>4, PrepareType, BroadcastType, ReconcileType, EndType DEF WorkerStep
<1>5. ASSUME NEW w \in Workers, DatabaseLost(w) \/ Crash(w) PROVE TypeOK'
  BY <1>5, FaultType
<1>6. CASE (\E c \in Creds : SendRawTransaction(c)) \/ ValidationReaps
  BY <1>6, WorldType
<1>7. QED
  BY <1>1, <1>2, <1>3, <1>4, <1>5, <1>6 DEF Next

-----------------------------------------------------------------------------
(* Keys and confirmation.                                                  *)

\* What the two invariants read besides where the workers stand.
watched == <<creds, issued, launched, jobs, toEnqueue, confirmed>>

\* A step of one handler that stays on its side of the launch keeps both.
LEMMA MoveKeeps ==
  ASSUME IInv, NEW w \in Workers,
         worker[w].pc # "idle",
         worker'[w].job = worker[w].job,
         worker'[w].handler = worker[w].handler,
         \A v \in Workers \ {w} : worker'[v] = worker[v],
         worker[w].handler = "broadcast" /\ worker[w].pc \in AfterLaunch
           => worker'[w].pc \in AfterLaunch,
         worker'[w].pc \in BeforeLaunch => worker[w].pc \in BeforeLaunch,
         UNCHANGED watched
  PROVE  KeysInv' /\ ConfirmInv'
<1>1. KeysInv'
  BY DEF IInv, KeysInv, KeyHeld, watched
<1>2. ConfirmInv'
  BY DEF IInv, ConfirmInv, watched
<1>3. QED
  BY <1>1, <1>2

LEMMA GotoKeeps ==
  ASSUME IInv, NEW w \in Workers, NEW pc \in Pcs, NEW seen \in SeenValues,
         worker[w].pc # "idle",
         Goto(w, pc, seen),
         worker[w].handler = "broadcast" /\ worker[w].pc \in AfterLaunch
           => pc \in AfterLaunch,
         pc \in BeforeLaunch => worker[w].pc \in BeforeLaunch,
         UNCHANGED watched
  PROVE  KeysInv' /\ ConfirmInv'
<1>1. /\ worker'[w].pc = pc
      /\ worker'[w].job = worker[w].job
      /\ worker'[w].handler = worker[w].handler
      /\ \A v \in Workers \ {w} : worker'[v] = worker[v]
  BY GotoEffect DEF IInv, TypeOK
<1>2. QED
  BY <1>1, MoveKeeps

\* Taking a job keeps both, given that the key was looked up.
LEMMA TakeKeeps ==
  ASSUME IInv, NEW w \in Workers, NEW j \in JobNames,
         NEW handler \in {"none", "prepare", "broadcast", "reconcile"},
         NEW pc \in Pcs, NEW seen \in SeenValues,
         Take(w, j, handler, pc, seen),
         pc \in BeforeLaunch
           => j = "broadcast" /\ handler = "broadcast" /\ creds[w] # None,
         UNCHANGED <<dbVars, apiVars, creds, worldVars, crashes>>
  PROVE  KeysInv' /\ ConfirmInv'
<1>1. /\ worker[w].pc = "idle"
      /\ worker'[w].pc = pc
      /\ worker'[w].job = j
      /\ worker'[w].handler = handler
      /\ \A v \in Workers \ {w} : worker'[v] = worker[v]
      /\ jobs[j].state # "none"
      /\ \A k \in JobNames : jobs'[k].state = "none" <=> jobs[k].state = "none"
  BY TakeEffect DEF IInv, TypeOK
<1>2. "idle" \notin AfterLaunch
  BY DEF AfterLaunch, ScriptTry, ConfirmTry
<1>3. creds[w] \notin launched
  BY <1>1, <1>2 DEF IInv, KeysInv
<1>4. creds[w] # None => creds[w] \in Creds
  BY DEF IInv, TypeOK
<1>5. KeysInv'
  BY <1>1, <1>3, <1>4 DEF IInv, KeysInv, KeyHeld, worldVars
<1>6. ConfirmInv'
  BY <1>1 DEF IInv, ConfirmInv, worldVars, apiVars, JobNames
<1>7. QED
  BY <1>5, <1>6

LEMMA InitKeeps == Init => KeysInv /\ ConfirmInv
BY DEF Init, KeysInv, KeyHeld, ConfirmInv, BeforeLaunch, Idle, NewJob, JobNames

\* Requests and the queue: the only step that lets a broadcast job appear is
\* the confirmation itself, or moves it on from there.
LEMMA ApiKeeps == ASSUME IInv, ApiStep PROVE KeysInv' /\ ConfirmInv'
<1> USE DEF IInv, KeysInv, KeyHeld, ConfirmInv, dbVars, apiVars, workerVars, worldVars
<1>1. CASE RequestPrepare
  BY <1>1 DEF RequestPrepare
<1>2. CASE RequestConfirm
  BY <1>2 DEF RequestConfirm
<1>3. CASE RequestReconcile
  BY <1>3 DEF RequestReconcile, TypeOK, JobNames
<1>4. CASE RequestCancel
  BY <1>4 DEF RequestCancel
<1>5. CASE WriteCancelled
  BY <1>5 DEF WriteCancelled
<1>6. QED
  BY <1>1, <1>2, <1>3, <1>4, <1>5 DEF ApiStep

LEMMA QueueKeeps ==
  ASSUME IInv, NEW j \in JobNames, QueueStep(j)
  PROVE  KeysInv' /\ ConfirmInv'
<1> USE DEF dbVars, apiVars, workerVars, worldVars
<1>1. KeysInv'
  BY DEF QueueStep, Enqueue, DropEnqueue, StalledCheck, Evict, IInv, KeysInv, KeyHeld
<1>2. CASE Enqueue(j)
  <2>1. ConfirmInv'
    BY <1>2 DEF Enqueue, IInv, ConfirmInv, TypeOK, JobNames, JobStates
  <2>2. QED
    BY <1>1, <2>1
<1>3. CASE DropEnqueue(j)
  BY <1>1, <1>3 DEF DropEnqueue, IInv, ConfirmInv
<1>4. CASE StalledCheck(j)
  <2>1. jobs[j].state = "active"
    BY <1>4 DEF StalledCheck
  <2>2. \A k \in JobNames \ {j} : jobs'[k] = jobs[k]
    BY <1>4 DEF StalledCheck, IInv, TypeOK
  <2>3. ConfirmInv'
    BY <1>4, <2>1, <2>2 DEF StalledCheck, IInv, ConfirmInv, JobNames
  <2>4. QED
    BY <1>1, <2>3
<1>5. CASE Evict(j)
  <2>1. ConfirmInv'
    BY <1>5 DEF Evict, IInv, ConfirmInv, TypeOK, JobNames, NewJob
  <2>2. QED
    BY <1>1, <2>1
<1>6. QED
  BY <1>2, <1>3, <1>4, <1>5 DEF QueueStep

\* The prepare handler: the new key is one that was never issued before.
LEMMA PrepareKeeps ==
  ASSUME IInv, NEW w \in Workers, PrepareStep(w)
  PROVE  KeysInv' /\ ConfirmInv'
<1> USE DEF At, Seen, Pcs, PrepareTry, ScriptTry, ConfirmTry, SeenValues, Statuses,
            BeforeLaunch, AfterLaunch, watched, apiVars, worldVars
<1>0. status \in SeenValues
  BY DEF IInv, TypeOK
<1>1. CASE StartPrepare(w)
  BY <1>1, TakeKeeps DEF StartPrepare, JobNames
<1>2. CASE MarkChecking(w)
  BY <1>2, GotoKeeps DEF MarkChecking, Write
<1>3. CASE CheckEligibility(w)
  BY <1>0, <1>3, GotoKeeps DEF CheckEligibility, Continue, Step
<1>4. CASE MarkPreparing(w)
  BY <1>4, GotoKeeps DEF MarkPreparing, Write
<1>5. CASE Materialize(w)
  BY <1>5, GotoKeeps DEF Materialize, Step
<1>6. CASE IssueCredential(w)
  <2>1. PICK c \in Creds \ issued :
          creds' = [creds EXCEPT ![w] = c] /\ issued' = issued \cup {c}
    BY <1>6 DEF IssueCredential
  <2>2. /\ worker'[w].pc = "toSimulating"
        /\ worker'[w].job = worker[w].job
        /\ \A v \in Workers \ {w} : worker'[v] = worker[v]
    BY <1>6, GotoEffect DEF IssueCredential, IInv, TypeOK
  <2>3. /\ creds' \in [Workers -> Creds \cup {None}]
        /\ creds'[w] = c
        /\ \A v \in Workers \ {w} : creds'[v] = creds[v]
    BY <2>1 DEF IInv, TypeOK
  <2>4. \A v \in Workers \ {w} : creds[v] # c
    BY <2>1, ConstantsOK DEF IInv, KeysInv
  <2>5. launched' = launched /\ UNCHANGED <<jobs, toEnqueue, confirmed>>
    BY <1>6 DEF IssueCredential
  <2>6. KeyHeld'
    BY <2>2, <2>3 DEF IInv, KeysInv, KeyHeld
  <2>7. KeysInv'
    BY <2>1, <2>2, <2>3, <2>4, <2>5, <2>6 DEF IInv, KeysInv
  <2>8. ConfirmInv'
    BY <1>6, <2>2, <2>5 DEF IssueCredential, IInv, ConfirmInv
  <2>9. QED
    BY <2>7, <2>8
<1>7. CASE MarkSimulating(w)
  BY <1>7, GotoKeeps DEF MarkSimulating, Write
<1>8. CASE Simulate(w)
  BY <1>8, GotoKeeps DEF Simulate, Continue, Step
<1>9. CASE MarkPrepared(w)
  BY <1>9, GotoKeeps DEF MarkPrepared, Write
<1>10. CASE CatchPrepare(w)
  BY <1>0, <1>10, GotoKeeps DEF CatchPrepare, Continue, Step
<1>11. QED
  BY <1>1, <1>2, <1>3, <1>4, <1>5, <1>6, <1>7, <1>8, <1>9, <1>10 DEF PrepareStep

\* The broadcast handler: it starts a script with a key no other worker holds
\* and no script was started with, for a job that was confirmed.
LEMMA BroadcastKeeps ==
  ASSUME IInv, NEW w \in Workers, BroadcastStep(w)
  PROVE  KeysInv' /\ ConfirmInv'
<1> USE DEF At, Seen, Pcs, PrepareTry, ScriptTry, ConfirmTry, SeenValues, Statuses,
            BeforeLaunch, AfterLaunch, watched, apiVars, worldVars
<1>0. status \in SeenValues
  BY DEF IInv, TypeOK
<1>1. CASE StartBroadcast(w)
  <2>1. PICK handler \in {"broadcast", "reconcile"}, pc \in Pcs, seen \in SeenValues :
          /\ Take(w, "broadcast", handler, pc, seen)
          /\ pc \in BeforeLaunch => handler = "broadcast" /\ creds[w] # None
    BY <1>0, <1>1 DEF StartBroadcast
  <2>2. UNCHANGED <<dbVars, apiVars, creds, worldVars, crashes>>
    BY <1>1 DEF StartBroadcast
  <2>3. "broadcast" \in JobNames
    BY DEF JobNames
  <2> QED BY <2>1, <2>2, <2>3, TakeKeeps
<1>2. CASE MarkFunding(w)
  BY <1>2, GotoKeeps DEF MarkFunding, Write
<1>3. CASE Fund(w)
  BY <1>3, GotoKeeps DEF Fund, Continue, Step
<1>4. CASE CatchBeforeBroadcast(w)
  BY <1>0, <1>4, GotoKeeps DEF CatchBeforeBroadcast, Continue, Step
<1>5. CASE MarkBroadcasting(w)
  <2>1. /\ worker'[w].pc = "script"
        /\ worker'[w].job = worker[w].job
        /\ worker'[w].handler = worker[w].handler
        /\ \A v \in Workers \ {w} : worker'[v] = worker[v]
    BY <1>5, GotoEffect DEF MarkBroadcasting, Write, IInv, TypeOK
  <2>2. /\ creds[w] \in Creds /\ creds[w] # None
        /\ worker[w].handler = "broadcast" /\ worker[w].job = "broadcast"
    BY <1>5, ConstantsOK DEF MarkBroadcasting, IInv, KeysInv, KeyHeld, ConfirmInv
  <2>3. launched' = launched \cup {creds[w]}
    BY <1>5 DEF MarkBroadcasting
  <2>4. UNCHANGED <<creds, issued, jobs, toEnqueue, confirmed>>
    BY <1>5 DEF MarkBroadcasting, Write
  <2>5. \A v \in Workers \ {w} : creds[v] # creds[w]
    BY <2>2 DEF IInv, KeysInv
  <2>6. KeyHeld'
    BY <2>1, <2>4 DEF IInv, KeysInv, KeyHeld
  <2>7. KeysInv'
    BY <2>1, <2>2, <2>3, <2>4, <2>5, <2>6 DEF IInv, KeysInv
  <2>8. confirmed
    BY <1>5, <2>2 DEF MarkBroadcasting, IInv, ConfirmInv
  <2>9. ConfirmInv'
    BY <2>1, <2>4, <2>8 DEF IInv, ConfirmInv
  <2>10. QED
    BY <2>7, <2>9
<1>6. CASE ScriptReturns(w)
  <2>1. JournalOf(creds[w]) \in SUBSET Tx
    BY JournalOfTx
  <2>2. PICK result \in {"OK", "ERROR", "TIMEOUT"} :
          worker' = [worker EXCEPT ![w] =
            [@ EXCEPT !.pc = "recording", !.seen = result,
                      !.left = JournalOf(creds[w])]]
    BY <1>6 DEF ScriptReturns
  <2>3. /\ worker'[w].pc = "recording"
        /\ worker'[w].job = worker[w].job
        /\ worker'[w].handler = worker[w].handler
        /\ \A v \in Workers \ {w} : worker'[v] = worker[v]
    BY <2>1, <2>2, EnterLoopEffect DEF IInv, TypeOK
  <2>4. QED
    BY <1>6, <2>3, MoveKeeps DEF ScriptReturns
<1>7. CASE RecordTransaction(w)
  <2>1. /\ worker[w].pc \in {"recording", "artifacts"}
        /\ \E t \in worker[w].left : Loop(w, worker[w].pc, worker[w].left \ {t}, FALSE)
    BY <1>7 DEF RecordTransaction
  <2>2. \A t \in worker[w].left : worker[w].left \ {t} \in SUBSET Tx
    BY DEF IInv, TypeOK, WorkerStates
  <2>3. /\ worker'[w].pc = worker[w].pc
        /\ worker'[w].job = worker[w].job
        /\ worker'[w].handler = worker[w].handler
        /\ \A v \in Workers \ {w} : worker'[v] = worker[v]
    BY <2>1, <2>2, LoopEffect DEF IInv, TypeOK
  <2>4. QED
    BY <1>7, <2>3, MoveKeeps DEF RecordTransaction
<1>8. CASE ScriptOutcome(w)
  BY <1>8, GotoKeeps DEF ScriptOutcome, Continue, Step
<1>9. CASE MarkSubmitted(w)
  BY <1>9, GotoKeeps DEF MarkSubmitted, Write
<1>10. CASE LoadArtifacts(w)
  <2>1. PICK named \in Artifacts(w) :
          \/ Goto(w, "aborting", "BROADCASTING")
          \/ Loop(w, "artifacts", named, FALSE)
    BY <1>10 DEF LoadArtifacts
  <2>2. named \in SUBSET Tx
    BY JournalOfTx DEF Artifacts, Tx
  <2>3. /\ worker'[w].pc \in {"aborting", "artifacts"}
        /\ worker'[w].job = worker[w].job
        /\ worker'[w].handler = worker[w].handler
        /\ \A v \in Workers \ {w} : worker'[v] = worker[v]
    BY <2>1, <2>2, LoopEffect, GotoEffect DEF IInv, TypeOK
  <2>4. QED
    BY <1>10, <2>3, MoveKeeps DEF LoadArtifacts
<1>11. QED
  BY <1>1, <1>2, <1>3, <1>4, <1>5, <1>6, <1>7, <1>8, <1>9, <1>10 DEF BroadcastStep

\* Reconciliation never comes near the launch of a script.
LEMMA ReconcileKeeps ==
  ASSUME IInv, NEW w \in Workers, ReconcileStep(w)
  PROVE  KeysInv' /\ ConfirmInv'
<1> USE DEF At, Seen, Pcs, PrepareTry, ScriptTry, ConfirmTry, SeenValues, Statuses,
            BeforeLaunch, AfterLaunch, watched, apiVars, worldVars
<1>0. /\ status \in SeenValues
      /\ worker[w].seen \in SeenValues
      /\ AfterTry(w) = IF worker[w].handler = "broadcast" THEN "finally" ELSE "returning"
      /\ AfterThrow(w) = IF worker[w].handler = "broadcast"
                         THEN "finallyThrow" ELSE "throwing"
  BY DEF IInv, TypeOK, WorkerStates, AfterTry, AfterThrow
<1>1. CASE StartReconcile(w)
  BY <1>1, TakeKeeps DEF StartReconcile, JobNames
<1>2. CASE Reconcile(w)
  BY <1>0, <1>2, GotoKeeps DEF Reconcile, Continue, Step
<1>3. CASE MarkReconciliation(w)
  BY <1>0, <1>3, GotoKeeps DEF MarkReconciliation, Write, Continue, Step
<1>4. CASE ListTransactions(w)
  <2>1. Recorded \in SUBSET Tx
    BY DEF Recorded
  <2>2. /\ worker'[w].pc = "receipts"
        /\ worker'[w].job = worker[w].job
        /\ worker'[w].handler = worker[w].handler
        /\ \A v \in Workers \ {w} : worker'[v] = worker[v]
    BY <1>4, <2>1, LoopEffect DEF ListTransactions, IInv, TypeOK
  <2>3. QED
    BY <1>4, <2>2, MoveKeeps DEF ListTransactions
<1>5. CASE LookUpReceipt(w)
  <2>1. PICK t \in worker[w].left : \E answer \in Receipts(t) :
          Loop(w, "receipts", worker[w].left \ {t},
               worker[w].unknown \/ answer = "UNKNOWN")
    BY <1>5 DEF LookUpReceipt
  <2>2. PICK answer \in Receipts(t) :
          Loop(w, "receipts", worker[w].left \ {t},
               worker[w].unknown \/ answer = "UNKNOWN")
    BY <2>1
  <2>3. worker[w].left \ {t} \in SUBSET Tx
    BY DEF IInv, TypeOK, WorkerStates
  <2>4. (worker[w].unknown \/ answer = "UNKNOWN") \in BOOLEAN
    BY Zenon
  <2>5. /\ worker'[w].pc = "receipts"
        /\ worker'[w].job = worker[w].job
        /\ worker'[w].handler = worker[w].handler
        /\ \A v \in Workers \ {w} : worker'[v] = worker[v]
    BY <2>2, <2>3, <2>4, LoopEffect DEF IInv, TypeOK
  <2>6. QED
    BY <1>5, <2>5, MoveKeeps DEF LookUpReceipt
<1>6. CASE ReceiptsDone(w)
  BY <1>0, <1>6, GotoKeeps DEF ReceiptsDone, Continue, Step
<1>7. CASE MarkUnknown(w)
  BY <1>0, <1>7, GotoKeeps DEF MarkUnknown, Write, Continue, Step
<1>8. CASE MarkConfirming(w)
  BY <1>8, GotoKeeps DEF MarkConfirming, Write
<1>9. CASE ReadAfterConfirm(w)
  BY <1>9, GotoKeeps DEF ReadAfterConfirm, Continue, Step
<1>10. CASE MarkVerifying(w)
  BY <1>10, GotoKeeps DEF MarkVerifying, Write
<1>11. CASE PostDeployChecks(w)
  BY <1>11, GotoKeeps DEF PostDeployChecks, Continue, Step
<1>12. CASE WriteVerdict(w)
  BY <1>12, GotoKeeps DEF WriteVerdict, Write
<1>13. CASE CatchAfterBroadcast(w)
  BY <1>13, GotoKeeps DEF CatchAfterBroadcast, Continue, Step
<1>14. CASE Caught(w)
  BY <1>0, <1>14, GotoKeeps DEF Caught, Continue, Step
<1>15. QED
  BY <1>1, <1>2, <1>3, <1>4, <1>5, <1>6, <1>7, <1>8, <1>9, <1>10, <1>11,
     <1>12, <1>13, <1>14 DEF ReconcileStep

\* The end of a handler: the finally block forgets the key it was started with.
LEMMA EndKeeps ==
  ASSUME IInv, NEW w \in Workers, EndStep(w)
  PROVE  KeysInv' /\ ConfirmInv'
<1> USE DEF At, Seen, Pcs, PrepareTry, ScriptTry, ConfirmTry, SeenValues, Statuses,
            BeforeLaunch, AfterLaunch, watched, apiVars, worldVars
<1>0. AfterTry(w) = IF worker[w].handler = "broadcast" THEN "finally" ELSE "returning"
  BY DEF AfterTry
<1>1. CASE LastWriteAnswered(w)
  BY <1>0, <1>1, GotoKeeps DEF LastWriteAnswered
<1>2. CASE Fail(w)
  BY <1>2, GotoKeeps DEF Fail
<1>3. CASE Finally(w)
  <2>1. PICK pc \in {"returning", "throwing"} : Goto(w, pc, "NONE")
    BY <1>3 DEF Finally
  <2>2. /\ worker'[w].pc = pc
        /\ worker'[w].job = worker[w].job
        /\ \A v \in Workers \ {w} : worker'[v] = worker[v]
    BY <2>1, GotoEffect DEF IInv, TypeOK
  <2>3. /\ creds'[w] = None
        /\ \A v \in Workers \ {w} : creds'[v] = creds[v]
        /\ UNCHANGED <<issued, launched, jobs, toEnqueue, confirmed>>
    BY <1>3 DEF Finally, IInv, TypeOK
  <2>4. None \notin launched
    BY ConstantsOK DEF IInv, TypeOK
  <2>5. KeysInv'
    BY <2>2, <2>3, <2>4 DEF IInv, KeysInv, KeyHeld
  <2>6. ConfirmInv'
    BY <1>3, <2>2, <2>3 DEF Finally, IInv, ConfirmInv
  <2>7. QED
    BY <2>5, <2>6
<1>4. ASSUME NEW state \in {"waiting", "done"}, NEW attempts \in Nat,
             worker[w].pc \in {"returning", "throwing"}, Settle(w, state, attempts),
             UNCHANGED <<dbVars, apiVars, creds, worldVars, crashes>>
      PROVE  KeysInv' /\ ConfirmInv'
  <2>1. worker[w].job \in JobNames
    BY <1>4 DEF IInv, TypeOK
  <2>2. /\ worker'[w] = Idle
        /\ \A v \in Workers \ {w} : worker'[v] = worker[v]
        /\ \A k \in JobNames : jobs'[k].state = "none" <=> jobs[k].state = "none"
    BY <1>4, <2>1, SettleEffect DEF IInv, TypeOK
  <2>3. KeysInv'
    BY <1>4, <2>2 DEF IInv, KeysInv, KeyHeld, Idle
  <2>4. ConfirmInv'
    BY <1>4, <2>2 DEF IInv, ConfirmInv, Idle, JobNames
  <2>5. QED
    BY <2>3, <2>4
<1>5. worker[w].pc # "idle" => jobs[worker[w].job].attempts \in Nat
  BY DEF IInv, TypeOK, JobStates
<1>6. CASE Return(w)
  BY <1>4, <1>5, <1>6 DEF Return
<1>7. CASE Throw(w)
  BY <1>4, <1>5, <1>7 DEF Throw
<1>8. QED
  BY <1>1, <1>2, <1>3, <1>6, <1>7 DEF EndStep

LEMMA FaultKeeps ==
  ASSUME IInv, NEW w \in Workers, DatabaseLost(w) \/ Crash(w)
  PROVE  KeysInv' /\ ConfirmInv'
<1>1. CASE DatabaseLost(w)
  BY <1>1, GotoKeeps
  DEF DatabaseLost, Continue, Step, At, Pcs, PrepareTry, ScriptTry, ConfirmTry,
      SeenValues, BeforeLaunch, AfterLaunch, watched, apiVars, worldVars
<1>2. CASE Crash(w)
  <2>1. /\ worker'[w] = Idle /\ creds'[w] = None
        /\ \A v \in Workers \ {w} : worker'[v] = worker[v] /\ creds'[v] = creds[v]
        /\ UNCHANGED <<issued, launched, jobs, toEnqueue, confirmed>>
    BY <1>2 DEF Crash, IInv, TypeOK, apiVars, worldVars
  <2>2. None \notin launched
    BY ConstantsOK DEF IInv, TypeOK
  <2>3. KeysInv'
    BY <2>1, <2>2 DEF IInv, KeysInv, KeyHeld, Idle, BeforeLaunch
  <2>4. ConfirmInv'
    BY <2>1 DEF IInv, ConfirmInv, Idle, BeforeLaunch
  <2>5. QED
    BY <2>3, <2>4
<1>3. QED
  BY <1>1, <1>2

LEMMA UnwatchedKeeps ==
  ASSUME IInv, UNCHANGED <<watched, worker>>
  PROVE  KeysInv' /\ ConfirmInv'
BY DEF IInv, KeysInv, KeyHeld, ConfirmInv, watched

-----------------------------------------------------------------------------
(* The rows and the journal.                                               *)

\* The transactions that somebody has handed to the network.
Sent == {t \in Tx : net[t] # "absent"}

\* What a handler is still to record or to look up was sent, and so was what
\* the repository carries.
RowsInv ==
  /\ RowsReflectNetwork
  /\ Carried \subseteq Sent
  /\ \A w \in Workers : worker[w].left \subseteq Sent

\* All steps but five leave the rows and the journal alone and give no handler
\* more transactions to go through.
Quiet ==
  /\ UNCHANGED <<txRows, net>>
  /\ \A v \in Workers : worker'[v].left \subseteq worker[v].left

LEMMA QuietKeeps == ASSUME RowsInv, Quiet PROVE RowsInv'
BY DEF RowsInv, RowsReflectNetwork, Recorded, Sent, Quiet

\* A worker that only moves on, takes a job or stops is quiet.
LEMMA GotoQuiet ==
  ASSUME TypeOK, NEW w \in Workers, NEW pc, NEW seen, Goto(w, pc, seen),
         UNCHANGED <<txRows, net>>
  PROVE  Quiet
BY DEF TypeOK, WorkerStates, Goto, Quiet

LEMMA IdleQuiet ==
  ASSUME TypeOK, NEW w \in Workers, worker' = [worker EXCEPT ![w] = Idle],
         UNCHANGED <<txRows, net>>
  PROVE  Quiet
BY DEF TypeOK, Quiet, Idle

LEMMA TakeQuiet ==
  ASSUME TypeOK, NEW w \in Workers, NEW j, NEW handler, NEW pc, NEW seen,
         Take(w, j, handler, pc, seen),
         UNCHANGED <<dbVars, apiVars, creds, worldVars, crashes>>
  PROVE  Quiet
BY DEF TypeOK, Take, Quiet, Idle, dbVars, worldVars

LEMMA PrepareQuiet == ASSUME TypeOK, NEW w \in Workers, PrepareStep(w) PROVE Quiet
<1> USE DEF Write, Continue, Step, dbVars, worldVars
<1>1. CASE StartPrepare(w)
  BY <1>1, TakeQuiet DEF StartPrepare
<1>2. CASE MarkChecking(w) \/ CheckEligibility(w) \/ MarkPreparing(w)
  BY <1>2, GotoQuiet DEF MarkChecking, CheckEligibility, MarkPreparing
<1>3. CASE Materialize(w) \/ IssueCredential(w) \/ MarkSimulating(w)
  BY <1>3, GotoQuiet DEF Materialize, IssueCredential, MarkSimulating
<1>4. CASE Simulate(w) \/ MarkPrepared(w) \/ CatchPrepare(w)
  BY <1>4, GotoQuiet DEF Simulate, MarkPrepared, CatchPrepare
<1>5. QED
  BY <1>1, <1>2, <1>3, <1>4 DEF PrepareStep

\* The broadcast handler reads the journal and records what it read.
LEMMA BroadcastRows ==
  ASSUME TypeOK, RowsInv, NEW w \in Workers, BroadcastStep(w)
  PROVE  RowsInv'
<1> USE DEF Write, Continue, Step, dbVars, worldVars
<1>1. CASE StartBroadcast(w)
  BY <1>1, TakeQuiet, QuietKeeps DEF StartBroadcast
<1>2. CASE MarkFunding(w) \/ Fund(w) \/ CatchBeforeBroadcast(w)
  BY <1>2, GotoQuiet, QuietKeeps DEF MarkFunding, Fund, CatchBeforeBroadcast
<1>3. CASE MarkBroadcasting(w) \/ ScriptOutcome(w) \/ MarkSubmitted(w)
  BY <1>3, GotoQuiet, QuietKeeps DEF MarkBroadcasting, ScriptOutcome, MarkSubmitted
<1>4. CASE ScriptReturns(w)
  <2>1. /\ UNCHANGED <<txRows, net>>
        /\ \A v \in Workers :
             worker'[v].left \in {worker[v].left, JournalOf(creds[w])}
    BY <1>4 DEF ScriptReturns, TypeOK, WorkerStates
  <2>2. JournalOf(creds[w]) \subseteq Sent
    BY DEF JournalOf, Journaled, Sent, Tx
  <2>3. QED
    BY <2>1, <2>2 DEF RowsInv, RowsReflectNetwork, Recorded, Sent
<1>5. CASE RecordTransaction(w)
  <2>1. PICK t \in worker[w].left :
          /\ txRows' = [txRows EXCEPT ![t] = "SUBMITTED"]
          /\ Loop(w, worker[w].pc, worker[w].left \ {t}, FALSE)
    BY <1>5 DEF RecordTransaction
  <2>2. net' = net
    BY <1>5 DEF RecordTransaction
  <2>3. \A v \in Workers : worker'[v].left \subseteq worker[v].left
    BY <2>1 DEF Loop, TypeOK, WorkerStates
  <2>4. t \in Sent
    BY DEF RowsInv
  <2>5. RowsReflectNetwork'
    BY <2>1, <2>2, <2>4 DEF RowsInv, RowsReflectNetwork, Recorded, Sent, TypeOK
  <2>6. QED
    BY <2>2, <2>3, <2>5 DEF RowsInv, Sent
<1>6. CASE LoadArtifacts(w)
  <2>1. UNCHANGED <<txRows, net>>
    BY <1>6 DEF LoadArtifacts
  <2>2. PICK named \in Artifacts(w) :
          \/ Goto(w, "aborting", "BROADCASTING")
          \/ Loop(w, "artifacts", named, FALSE)
    BY <1>6 DEF LoadArtifacts
  <2>3. \A v \in Workers : worker'[v].left \in {worker[v].left, named, {}}
    BY <2>2 DEF Goto, Loop, TypeOK, WorkerStates
  <2>4. named \subseteq Sent
    BY DEF Artifacts, JournalOf, Journaled, Sent, Tx, RowsInv
  <2>5. QED
    BY <2>1, <2>3, <2>4 DEF RowsInv, RowsReflectNetwork, Recorded, Sent
<1>7. QED
  BY <1>1, <1>2, <1>3, <1>4, <1>5, <1>6 DEF BroadcastStep

\* Confirmation lists the rows and writes what the network answers.
LEMMA ReconcileRows ==
  ASSUME TypeOK, RowsInv, NEW w \in Workers, ReconcileStep(w)
  PROVE  RowsInv'
<1> USE DEF Write, Continue, Step, dbVars, worldVars
<1>1. CASE StartReconcile(w)
  BY <1>1, TakeQuiet, QuietKeeps DEF StartReconcile
<1>2. CASE Reconcile(w) \/ MarkReconciliation(w) \/ ReceiptsDone(w)
  BY <1>2, GotoQuiet, QuietKeeps DEF Reconcile, MarkReconciliation, ReceiptsDone
<1>3. CASE MarkUnknown(w) \/ MarkConfirming(w) \/ ReadAfterConfirm(w)
  BY <1>3, GotoQuiet, QuietKeeps DEF MarkUnknown, MarkConfirming, ReadAfterConfirm
<1>4. CASE MarkVerifying(w) \/ PostDeployChecks(w) \/ WriteVerdict(w)
  BY <1>4, GotoQuiet, QuietKeeps DEF MarkVerifying, PostDeployChecks, WriteVerdict
<1>5. CASE CatchAfterBroadcast(w) \/ Caught(w)
  BY <1>5, GotoQuiet, QuietKeeps DEF CatchAfterBroadcast, Caught
<1>6. CASE ListTransactions(w)
  <2>1. /\ UNCHANGED <<txRows, net>>
        /\ \A v \in Workers : worker'[v].left \in {worker[v].left, Recorded}
    BY <1>6 DEF ListTransactions, Loop, TypeOK, WorkerStates
  <2>2. Recorded \subseteq Sent
    BY DEF RowsInv, RowsReflectNetwork, Recorded, Sent
  <2>3. QED
    BY <2>1, <2>2 DEF RowsInv, RowsReflectNetwork, Recorded, Sent
<1>7. CASE LookUpReceipt(w)
  <2>1. PICK t \in worker[w].left : \E answer \in Receipts(t) :
          /\ txRows' = [txRows EXCEPT ![t] = answer]
          /\ Loop(w, "receipts", worker[w].left \ {t},
                  worker[w].unknown \/ answer = "UNKNOWN")
    BY <1>7 DEF LookUpReceipt
  <2>2. PICK answer \in Receipts(t) :
          /\ txRows' = [txRows EXCEPT ![t] = answer]
          /\ Loop(w, "receipts", worker[w].left \ {t},
                  worker[w].unknown \/ answer = "UNKNOWN")
    BY <2>1
  <2>3. net' = net
    BY <1>7 DEF LookUpReceipt
  <2>4. \A v \in Workers : worker'[v].left \subseteq worker[v].left
    BY <2>2 DEF Loop, TypeOK, WorkerStates
  <2>5. /\ t \in Sent
        /\ answer = "CONFIRMED" => net[t] = "good"
        /\ answer = "REVERTED" => net[t] = "bad"
    BY DEF RowsInv, Receipts
  <2>6. RowsReflectNetwork'
    BY <2>2, <2>3, <2>5 DEF RowsInv, RowsReflectNetwork, Recorded, Sent, TypeOK
  <2>7. QED
    BY <2>3, <2>4, <2>6 DEF RowsInv, Sent
<1>8. QED
  BY <1>1, <1>2, <1>3, <1>4, <1>5, <1>6, <1>7 DEF ReconcileStep

LEMMA EndQuiet ==
  ASSUME TypeOK, NEW w \in Workers, EndStep(w) \/ DatabaseLost(w) \/ Crash(w)
  PROVE  Quiet
<1> USE DEF Continue, Step, dbVars, worldVars
<1>1. CASE LastWriteAnswered(w) \/ Fail(w) \/ Finally(w) \/ DatabaseLost(w)
  BY <1>1, GotoQuiet DEF LastWriteAnswered, Fail, Finally, DatabaseLost
<1>2. CASE Return(w) \/ Throw(w) \/ Crash(w)
  BY <1>2, IdleQuiet DEF Return, Throw, Settle, Crash
<1>3. QED
  BY <1>1, <1>2 DEF EndStep

\* A fate, once met, is final.
LEMMA SendRows ==
  ASSUME TypeOK, RowsInv, NEW c \in Creds, SendRawTransaction(c)
  PROVE  RowsInv'
<1>1. PICK i \in 1 .. MaxTx, fate \in Fates \ {"absent"} :
        /\ \A k \in 1 .. MaxTx : k < i <=> net[<<c, k>>] # "absent"
        /\ net' = [net EXCEPT ![<<c, i>>] = fate]
  BY DEF SendRawTransaction
<1>2. net[<<c, i>>] = "absent"
  BY <1>1, ConstantsOK
<1>3. \A t \in Tx : net[t] # "absent" => net'[t] = net[t]
  BY <1>1, <1>2 DEF TypeOK
<1>4. UNCHANGED <<txRows, worker>>
  BY DEF SendRawTransaction, dbVars, workerVars
<1>5. QED
  BY <1>3, <1>4 DEF RowsInv, RowsReflectNetwork, Recorded, Sent

LEMMA RowsStep == TypeOK /\ RowsInv /\ [Next]_vars => RowsInv'
<1> SUFFICES ASSUME TypeOK, RowsInv, [Next]_vars PROVE RowsInv'
  OBVIOUS
<1>1. CASE UNCHANGED <<txRows, net, worker>>
  BY <1>1, QuietKeeps DEF Quiet
<1>2. CASE UNCHANGED vars \/ ApiStep \/ (\E j \in JobNames : QueueStep(j)) \/ ValidationReaps
  <2>1. UNCHANGED <<txRows, net, worker>>
    BY <1>2 DEF vars, ApiStep, RequestPrepare, RequestConfirm, RequestReconcile,
                RequestCancel, WriteCancelled, QueueStep, Enqueue, DropEnqueue,
                StalledCheck, Evict, ValidationReaps,
                dbVars, workerVars, worldVars
  <2>2. QED
    BY <1>1, <2>1
<1>3. ASSUME NEW w \in Workers, WorkerStep(w) \/ DatabaseLost(w) \/ Crash(w)
      PROVE  RowsInv'
  BY <1>3, PrepareQuiet, BroadcastRows, ReconcileRows, EndQuiet, QuietKeeps DEF WorkerStep
<1>4. ASSUME NEW c \in Creds, SendRawTransaction(c) PROVE RowsInv'
  BY <1>4, SendRows
<1>5. QED
  BY <1>2, <1>3, <1>4 DEF Next

-----------------------------------------------------------------------------
(* The theorems.                                                           *)

\* The invariant holds initially and every step keeps it.
LEMMA Inductive == IInv /\ [Next]_vars => IInv'
<1> SUFFICES ASSUME IInv, [Next]_vars PROVE IInv'
  OBVIOUS
<1>1. TypeOK'
  BY TypeStep DEF IInv, KeysInv
<1>2. KeysInv' /\ ConfirmInv'
  <2>1. CASE UNCHANGED vars
    BY <2>1, UnwatchedKeeps DEF vars, watched, workerVars, worldVars, apiVars
  <2>2. CASE ApiStep
    BY <2>2, ApiKeeps
  <2>3. ASSUME NEW j \in JobNames, QueueStep(j) PROVE KeysInv' /\ ConfirmInv'
    BY <2>3, QueueKeeps
  <2>4. ASSUME NEW w \in Workers, WorkerStep(w) PROVE KeysInv' /\ ConfirmInv'
    BY <2>4, PrepareKeeps, BroadcastKeeps, ReconcileKeeps, EndKeeps DEF WorkerStep
  <2>5. ASSUME NEW w \in Workers, DatabaseLost(w) \/ Crash(w)
        PROVE  KeysInv' /\ ConfirmInv'
    BY <2>5, FaultKeeps
  <2>6. CASE (\E c \in Creds : SendRawTransaction(c)) \/ ValidationReaps
    BY <2>6, UnwatchedKeeps
    DEF SendRawTransaction, ValidationReaps, watched, workerVars, apiVars
  <2>7. QED
    BY <2>1, <2>2, <2>3, <2>4, <2>5, <2>6 DEF Next
<1>3. QED
  BY <1>1, <1>2 DEF IInv

LEMMA Invariance == Spec => []IInv
<1>1. Init => IInv
  BY TypeInit, InitKeeps DEF IInv
<1>2. QED
  BY <1>1, Inductive, PTL DEF Spec

\* Every variable always has the shape the actions rely on.
THEOREM TypeCorrect == Spec => []TypeOK
<1>1. IInv => TypeOK
  BY DEF IInv
<1>2. QED
  BY <1>1, Invariance, PTL

\* Whatever the number of workers and whatever crashes, stalls and lost
\* answers do to them, a script is only ever started with a key that is there
\* and that no script was started with before.
THEOREM FreshKeys == Spec => []FreshKeyAtLaunch
<1>1. IInv => FreshKeyAtLaunch
  BY DEF IInv, KeysInv, KeyHeld, FreshKeyAtLaunch, At, BeforeLaunch, AfterLaunch,
         ScriptTry, ConfirmTry
<1>2. QED
  BY <1>1, Invariance, PTL

\* Nothing is ever broadcast that a client did not confirm.
THEOREM Confirmed == Spec => []ConfirmedBeforeLaunch
<1>1. IInv => ConfirmedBeforeLaunch
  BY DEF IInv, ConfirmInv, ConfirmedBeforeLaunch
<1>2. QED
  BY <1>1, Invariance, PTL

\* However handlers overlap, the rows of a run name only transactions that were
\* sent, and claim of them only what the network answered.
THEOREM RowsAreTrue == Spec => []RowsReflectNetwork
<1>1. Init => RowsInv
  <2> SUFFICES ASSUME Init PROVE RowsInv
    OBVIOUS
  <2>1. Carried \subseteq Tx \ Own
    BY ConstantsOK DEF Tx, Own
  <2>2. Carried \subseteq Sent
    BY <2>1 DEF Init, Sent
  <2>3. QED
    BY <2>2 DEF Init, RowsInv, RowsReflectNetwork, Recorded, Idle
<1>2. TypeOK /\ RowsInv /\ [Next]_vars => RowsInv'
  BY RowsStep
<1>3. Spec => []RowsInv
  BY <1>1, <1>2, TypeCorrect, PTL DEF Spec
<1>4. RowsInv => RowsReflectNetwork
  BY DEF RowsInv
<1>5. QED
  BY <1>3, <1>4, PTL

-----------------------------------------------------------------------------
(* The staging topology: one worker process that keeps its locks, and a     *)
(* database that answers every write it commits.  SInv is the inductive     *)
(* invariant, next to IInv.                                                 *)

Staging ==
  /\ \A v, w \in Workers : v = w
  /\ LosesLock = {}
  /\ "unanswered" \notin DatabaseFaults

Executes(w, j) == worker[w].pc # "idle" /\ worker[w].job = j

\* Where a prepare handler stands that goes on to write a status.
Preparing == {"toChecking", "checking", "toPreparing"} \cup PrepareTry

\* The prepare job is known to the queue and not finished.
PrepareOwed == jobs["prepare"].state \in {"waiting", "active"}

\* A handler that runs has the lock on its job.
LockInv ==
  \A w \in Workers : worker[w].pc # "idle" =>
    jobs[worker[w].job].state = "active" /\ jobs[worker[w].job].holder = w

\* No key is issued before the prepare job was taken up, and the job that an
\* API handler is about to add is either still there or was never taken up.
UnissuedInv ==
  /\ status = "ABSENT" => toEnqueue = {} /\ \A j \in JobNames : jobs[j].state = "none"
  /\ status \in {"ABSENT", "QUEUED"} => issued = {}
  /\ "prepare" \in toEnqueue /\ jobs["prepare"].state = "none" => issued = {}
  /\ \A w \in Workers :
       /\ worker[w].pc \in Preparing => worker[w].job = "prepare"
       /\ worker[w].pc \in Preparing \ {"toChecking"} => status \notin {"ABSENT", "QUEUED"}

\* While the prepare job is owed, a run that could be launched has no key.
OwedInv ==
  /\ status = "FUNDING" => issued # {} /\ ~ PrepareOwed
  /\ \A w \in Workers :
       /\ Executes(w, "prepare") => worker[w].handler # "broadcast"
       /\ Executes(w, "prepare") /\ status = "PREPARED" => worker[w].pc \in {"written", "returning"}
       /\ creds[w] # None /\ status = "PREPARED" /\ ~ Executes(w, "prepare") => ~ PrepareOwed
       /\ worker[w].pc \in BeforeLaunch => ~ PrepareOwed

\* After the launch.
LaunchInv ==
  /\ launched # {} => /\ status \notin PreBroadcast \cup {"ABSENT"}
                      /\ ~ PrepareOwed
                      /\ \A w \in Workers : creds[w] = None \/ launched = {creds[w]}
                      /\ \A w \in Workers : worker[w].pc # "failing"
  /\ running \subseteq launched
  /\ \A t \in Journaled : t[1] \in launched

\* The key.
DeployerInv ==
  \A w \in Workers :
    /\ creds[w] # None => deployer = creds[w]
    /\ worker[w].pc \in ScriptTry => creds[w] # None

\* A script that failed and whose journal is being read sends nothing more.
AbortInv ==
  \A w \in Workers :
    /\ worker[w].pc = "recording" /\ worker[w].seen = "ERROR" =>
         creds[w] \notin running /\ JournalOf(creds[w]) \subseteq Recorded \cup worker[w].left
    /\ worker[w].pc \in ScriptTry => creds[w] \in launched
    /\ worker[w].pc = "aborting" => Journaled = {} /\ running = {}

\* Between the checks and the verdict no row changes.
VerdictInv ==
  \A w \in Workers : worker[w].pc = "toCompleted" =>
     Recorded # {} /\ \A t \in Recorded : txRows[t] = "CONFIRMED"

SInv == LockInv /\ UnissuedInv /\ OwedInv /\ LaunchInv /\ DeployerInv /\ AbortInv /\ VerdictInv

Base == Staging /\ IInv /\ SInv

-----------------------------------------------------------------------------
(* A handler that moves on.                                                *)

\* Before the script is started no key was used.
LEMMA NotLaunched ==
  ASSUME Base, NEW w \in Workers, worker[w].pc \in Preparing \cup BeforeLaunch
  PROVE  launched = {}
<1>1. CASE worker[w].pc \in Preparing
  <2>1. PrepareOwed
    BY <1>1 DEF Base, SInv, UnissuedInv, LockInv, PrepareOwed, Preparing, PrepareTry
  <2> QED BY <2>1 DEF Base, SInv, LaunchInv
<1>2. CASE worker[w].pc \in BeforeLaunch
  <2>1. creds[w] \in Creds /\ worker[w].pc \notin AfterLaunch
    BY <1>2 DEF Base, IInv, KeysInv, KeyHeld, BeforeLaunch, AfterLaunch, ScriptTry, ConfirmTry
  <2>2. creds[w] # None /\ creds[w] \notin launched
    BY <2>1, ConstantsOK DEF Base, IInv, KeysInv
  <2> QED BY <2>2 DEF Base, SInv, LaunchInv
<1> QED BY <1>1, <1>2

\* What a handler that moves on to pc leaves alone.
Moves(w, pc) ==
  /\ worker[w].pc # "idle" /\ pc # "idle"
  /\ worker'[w].pc = pc
  /\ worker'[w].job = worker[w].job /\ worker'[w].handler = worker[w].handler
  /\ UNCHANGED <<jobs, toEnqueue, creds, issued, launched, net, txRows>>
  /\ running' \subseteq running
  /\ deployer' \in {deployer, creds[w]}

\* What must hold of the place it moves on to and of what it writes.
Allows(w, pc) ==
  /\ pc \in Preparing => worker[w].pc \in Preparing /\ status' \notin {"ABSENT", "QUEUED"}
  /\ Executes(w, "prepare") /\ status' = "PREPARED" => pc \in {"written", "returning"}
  /\ pc \in BeforeLaunch => worker[w].pc \in BeforeLaunch
  /\ pc = "failing" => worker[w].pc \in Preparing \cup BeforeLaunch
  /\ pc \in ScriptTry => pc # "recording" /\ worker[w].pc \in ScriptTry
  /\ pc = "aborting" => Journaled = {} /\ running = {}
  /\ pc = "toCompleted" => Recorded # {} /\ \A t \in Recorded : txRows[t] = "CONFIRMED"
  /\ \/ status' \in {status} \cup (Statuses \ PreBroadcast)
     \/ worker[w].pc \in Preparing /\ status' \in PreBroadcast \ {"QUEUED", "FUNDING"}
     \/ worker[w].pc \in BeforeLaunch /\ status' = "FUNDING"

LEMMA MoveKeepsS ==
  ASSUME Base, NEW w \in Workers, NEW pc, Moves(w, pc), Allows(w, pc)
  PROVE  SInv'
<1>0. \A v \in Workers : v = w
  BY DEF Base, Staging
<1>1. LockInv'
  BY <1>0 DEF Base, SInv, LockInv, Moves
<1>2. UnissuedInv'
  <2>1. status' \in {"ABSENT", "QUEUED"} => status' = status
    BY DEF Allows, Statuses, PreBroadcast
  <2>2. /\ status' = "ABSENT" => toEnqueue' = {} /\ \A j \in JobNames : jobs'[j].state = "none"
        /\ status' \in {"ABSENT", "QUEUED"} => issued' = {}
        /\ "prepare" \in toEnqueue' /\ jobs'["prepare"].state = "none" => issued' = {}
    BY <2>1 DEF Base, SInv, UnissuedInv, Moves
  <2>3. /\ worker'[w].pc \in Preparing => worker'[w].job = "prepare"
        /\ worker'[w].pc \in Preparing \ {"toChecking"} => status' \notin {"ABSENT", "QUEUED"}
    BY DEF Base, SInv, UnissuedInv, Moves, Allows
  <2> QED BY <1>0, <2>2, <2>3 DEF UnissuedInv
<1>3. OwedInv'
  <2>1. PrepareOwed' = PrepareOwed /\ Executes(w, "prepare")' = Executes(w, "prepare")
    BY DEF Moves, PrepareOwed, Executes
  <2>2. ASSUME status' = "FUNDING" PROVE issued' # {} /\ ~ PrepareOwed'
    <3>1. CASE worker[w].pc \in BeforeLaunch
      <4>1. creds[w] \in issued /\ ~ PrepareOwed
        BY <3>1, ConstantsOK DEF Base, IInv, KeysInv, KeyHeld, SInv, OwedInv
      <4> QED BY <4>1, <2>1 DEF Moves
    <3>2. CASE status' = status
      BY <2>1, <2>2, <3>2 DEF Base, SInv, OwedInv, Moves
    <3> QED BY <2>2, <3>1, <3>2 DEF Allows, PreBroadcast
  <2>3. ASSUME creds'[w] # None, status' = "PREPARED", ~ Executes(w, "prepare")'
        PROVE  ~ PrepareOwed'
    <3>1. worker[w].pc \notin Preparing
      BY <2>1, <2>3 DEF Base, SInv, UnissuedInv, Executes, Moves
    <3>2. status = "PREPARED"
      BY <2>3, <3>1 DEF Allows, PreBroadcast
    <3> QED BY <2>1, <2>3, <3>2 DEF Base, SInv, OwedInv, Moves
  <2>4. /\ Executes(w, "prepare")' => worker'[w].handler # "broadcast"
        /\ Executes(w, "prepare")' /\ status' = "PREPARED" => worker'[w].pc \in {"written", "returning"}
        /\ worker'[w].pc \in BeforeLaunch => ~ PrepareOwed'
    BY <2>1 DEF Base, SInv, OwedInv, Moves, Allows
  <2> QED BY <1>0, <2>2, <2>3, <2>4 DEF OwedInv
<1>4. LaunchInv'
  <2>1. /\ running' \subseteq launched' /\ \A t \in Journaled' : t[1] \in launched'
        /\ PrepareOwed' = PrepareOwed
    BY DEF Base, SInv, LaunchInv, Moves, Journaled, PrepareOwed
  <2>2. ASSUME launched' # {}
        PROVE  /\ status' \notin PreBroadcast \cup {"ABSENT"} /\ ~ PrepareOwed'
               /\ creds'[w] = None \/ launched' = {creds'[w]}
               /\ worker'[w].pc # "failing"
    <3>1. launched # {} /\ worker[w].pc \notin Preparing \cup BeforeLaunch
      BY <2>2, NotLaunched DEF Moves
    <3>2. status' \in {status} \cup (Statuses \ PreBroadcast) /\ "ABSENT" \notin Statuses
      BY <3>1 DEF Allows, Statuses
    <3> QED BY <2>1, <3>1, <3>2 DEF Base, SInv, LaunchInv, Moves, Allows
  <2> QED BY <1>0, <2>1, <2>2 DEF LaunchInv
<1>5. DeployerInv'
  BY <1>0 DEF Base, SInv, DeployerInv, Moves, Allows
<1>6. AbortInv'
  <2>1. /\ worker'[w].pc # "recording"
        /\ worker'[w].pc \in ScriptTry => creds'[w] \in launched'
        /\ worker'[w].pc = "aborting" => Journaled' = {} /\ running' = {}
    BY DEF Base, SInv, AbortInv, Moves, Allows, Journaled, ScriptTry
  <2> QED BY <1>0, <2>1 DEF AbortInv
<1>7. VerdictInv'
  BY <1>0 DEF Base, SInv, VerdictInv, Moves, Allows, Recorded
<1> QED BY <1>1, <1>2, <1>3, <1>4, <1>5, <1>6, <1>7 DEF SInv

LEMMA GotoKeepsS ==
  ASSUME Base, NEW w \in Workers, NEW pc \in Pcs, NEW seen,
         worker[w].pc # "idle", pc # "idle", Goto(w, pc, seen),
         UNCHANGED <<jobs, toEnqueue, creds, issued, launched, net, txRows>>,
         running' \subseteq running, deployer' \in {deployer, creds[w]},
         Allows(w, pc)
  PROVE  SInv'
<1>1. worker[w] \in WorkerStates /\ worker' = [worker EXCEPT ![w] = worker'[w]]
  BY DEF Base, IInv, TypeOK, Goto
<1>2. worker'[w].pc = pc /\ worker'[w].job = worker[w].job /\ worker'[w].handler = worker[w].handler
  BY DEF Base, IInv, TypeOK, Goto, WorkerStates
<1> QED BY <1>2, MoveKeepsS DEF Moves

-----------------------------------------------------------------------------
(* The handlers, step by step.                                             *)

\* The prepare handler's steps but the first and the new key.
LEMMA PrepareMoves ==
  ASSUME Base, NEW w \in Workers,
         \/ MarkChecking(w) \/ CheckEligibility(w) \/ MarkPreparing(w) \/ Materialize(w)
         \/ MarkSimulating(w) \/ Simulate(w) \/ MarkPrepared(w) \/ CatchPrepare(w)
  PROVE  SInv'
<1> USE DEF At, Write, Continue, Step, Preparing, PrepareTry, BeforeLaunch, ScriptTry, Pcs,
            Statuses, PreBroadcast, worldVars, dbVars, apiVars
<1>0. /\ status \in Statuses \cup {"ABSENT"}
      /\ worker[w].pc \in Preparing => worker[w].job = "prepare"
      /\ worker[w].pc \in Preparing \ {"toChecking"} => status \notin {"ABSENT", "QUEUED"}
      /\ worker[w].pc \in Preparing => status # "PREPARED"
  BY DEF Base, IInv, TypeOK, SInv, UnissuedInv, OwedInv, Executes
<1>1. CASE MarkChecking(w)
  BY <1>0, <1>1, GotoKeepsS DEF MarkChecking, Allows
<1>2. CASE CheckEligibility(w)
  BY <1>0, <1>2, GotoKeepsS DEF CheckEligibility, Allows
<1>3. CASE MarkPreparing(w)
  BY <1>0, <1>3, GotoKeepsS DEF MarkPreparing, Allows
<1>4. CASE Materialize(w)
  BY <1>0, <1>4, GotoKeepsS DEF Materialize, Allows
<1>5. CASE MarkSimulating(w)
  BY <1>0, <1>5, GotoKeepsS DEF MarkSimulating, Allows
<1>6. CASE Simulate(w)
  BY <1>0, <1>6, GotoKeepsS DEF Simulate, Allows
<1>7. CASE MarkPrepared(w)
  BY <1>0, <1>7, GotoKeepsS DEF MarkPrepared, Allows
<1>8. CASE CatchPrepare(w)
  BY <1>0, <1>8, GotoKeepsS DEF CatchPrepare, Allows, Base, Staging
<1> QED BY <1>1, <1>2, <1>3, <1>4, <1>5, <1>6, <1>7, <1>8

\* A loop over transactions is a move too.
LEMMA LoopKeepsS ==
  ASSUME Base, NEW w \in Workers, NEW pc \in Pcs, NEW left, NEW unknown,
         worker[w].pc # "idle", pc # "idle", Loop(w, pc, left, unknown),
         UNCHANGED <<status, deployer, jobs, toEnqueue, creds, issued, launched, net, txRows, running>>,
         Allows(w, pc)
  PROVE  SInv'
<1>1. worker'[w].pc = pc /\ worker'[w].job = worker[w].job /\ worker'[w].handler = worker[w].handler
  BY DEF Base, IInv, TypeOK, Loop, WorkerStates
<1> QED BY <1>1, MoveKeepsS DEF Moves

\* Where a handler is past the launch, a status it leaves alone is allowed.
LEMMA StaysAllowed ==
  ASSUME Base, NEW w \in Workers, NEW pc, worker[w].pc \notin {"idle", "written", "returning"},
         pc \notin Preparing \cup BeforeLaunch \cup ScriptTry \cup {"failing", "aborting", "toCompleted"},
         status' \in {status} \cup (Statuses \ PreBroadcast)
  PROVE  Allows(w, pc)
<1>1. Executes(w, "prepare") => status' # "PREPARED"
  BY DEF Base, SInv, OwedInv, Executes, PreBroadcast
<1> QED BY <1>1 DEF Allows

\* Once the journal of a failed script is in the database and names nothing,
\* nothing was sent and nothing will be.
LEMMA NothingSent ==
  ASSUME Base, NEW w \in Workers, worker[w].pc = "recording", worker[w].seen = "ERROR",
         worker[w].left = {}, JournalOf(creds[w]) \cap Recorded = {}
  PROVE  Journaled = {} /\ running = {}
<1>1. creds[w] \notin running /\ JournalOf(creds[w]) = {} /\ creds[w] \in launched /\ creds[w] # None
  BY DEF Base, SInv, AbortInv, DeployerInv, ScriptTry
<1>2. launched = {creds[w]}
  BY <1>1 DEF Base, SInv, LaunchInv
<1>3. running = {}
  BY <1>1, <1>2 DEF Base, SInv, LaunchInv
<1>4. Journaled = {}
  BY <1>1, <1>2 DEF Base, SInv, LaunchInv, JournalOf
<1> QED BY <1>3, <1>4

LEMMA BroadcastMoves ==
  ASSUME Base, NEW w \in Workers,
         \/ MarkFunding(w) \/ Fund(w) \/ CatchBeforeBroadcast(w) \/ LoadArtifacts(w)
         \/ ScriptOutcome(w) \/ MarkSubmitted(w)
  PROVE  SInv'
<1> USE DEF At, Write, Continue, Step, worldVars, dbVars, apiVars
<1>0. /\ worker[w].pc \in BeforeLaunch \cup ScriptTry /\ Executes(w, "prepare") => status # "PREPARED"
      /\ worker[w].pc \in BeforeLaunch => Journaled = {} /\ running = {}
  <2>1. worker[w].pc \in BeforeLaunch \cup ScriptTry /\ Executes(w, "prepare") => status # "PREPARED"
    BY DEF Base, SInv, OwedInv, BeforeLaunch, ScriptTry
  <2>2. worker[w].pc \in BeforeLaunch => launched = {}
    BY NotLaunched
  <2> QED BY <2>1, <2>2 DEF Base, SInv, LaunchInv
<1>1. CASE MarkFunding(w)
  <2>1. Allows(w, "funding")
    BY <1>0, <1>1 DEF MarkFunding, Allows, BeforeLaunch, Preparing, PrepareTry, ScriptTry
  <2> QED BY <1>1, <2>1, GotoKeepsS DEF MarkFunding, Pcs
<1>2. CASE Fund(w)
  <2>1. Allows(w, "toBroadcasting") /\ Allows(w, "failing")
    BY <1>0, <1>2 DEF Fund, Allows, BeforeLaunch, Preparing, PrepareTry, ScriptTry
  <2> QED BY <1>2, <2>1, GotoKeepsS DEF Fund, Pcs
<1>3. CASE CatchBeforeBroadcast(w)
  <2>1. Allows(w, "aborting")
    BY <1>0, <1>3 DEF CatchBeforeBroadcast, Allows, BeforeLaunch, Preparing, PrepareTry, ScriptTry
  <2> QED BY <1>3, <2>1, GotoKeepsS DEF CatchBeforeBroadcast, Pcs
<1>4. CASE LoadArtifacts(w)
  <2>1. PICK named \in Artifacts(w) :
          IF Seen(w) = "ERROR" /\ named = {} /\ JournalOf(creds[w]) \cap Recorded = {}
          THEN Goto(w, "aborting", "BROADCASTING")
          ELSE Loop(w, "artifacts", named, FALSE)
    BY <1>4 DEF LoadArtifacts
  <2>2. Allows(w, "artifacts")
    BY <1>0, <1>4 DEF LoadArtifacts, Allows, BeforeLaunch, Preparing, PrepareTry, ScriptTry
  <2>3. CASE Goto(w, "aborting", "BROADCASTING") /\ Seen(w) = "ERROR"
             /\ JournalOf(creds[w]) \cap Recorded = {}
    <3>1. Journaled = {} /\ running = {}
      BY <1>4, <2>3, NothingSent DEF LoadArtifacts, Seen
    <3>2. Allows(w, "aborting")
      BY <1>0, <1>4, <3>1 DEF LoadArtifacts, Allows, BeforeLaunch, Preparing, PrepareTry, ScriptTry
    <3> QED BY <1>4, <2>3, <3>2, GotoKeepsS DEF LoadArtifacts, Pcs
  <2>4. CASE Loop(w, "artifacts", named, FALSE)
    BY <1>4, <2>2, <2>4, LoopKeepsS DEF LoadArtifacts, Pcs, ScriptTry
  <2> QED BY <2>1, <2>3, <2>4
<1>5. CASE ScriptOutcome(w)
  <2>1. Allows(w, "toRecon") /\ Allows(w, "submitted")
    BY <1>0, <1>5 DEF ScriptOutcome, Allows, BeforeLaunch, Preparing, PrepareTry, ScriptTry
  <2> QED BY <1>5, <2>1, GotoKeepsS DEF ScriptOutcome, Pcs, ScriptTry
<1>6. CASE MarkSubmitted(w)
  <2>1. Allows(w, "confirm")
    BY <1>0, <1>6 DEF MarkSubmitted, Allows, BeforeLaunch, Preparing, PrepareTry, ScriptTry,
                      Statuses, PreBroadcast
  <2> QED BY <1>6, <2>1, GotoKeepsS DEF MarkSubmitted, Pcs, ConfirmTry
<1> QED BY <1>1, <1>2, <1>3, <1>4, <1>5, <1>6

\* The steps of the reconcile handler and of confirmAndVerify but the first
\* and the lookups.
LEMMA ReconcileMoves ==
  ASSUME Base, NEW w \in Workers,
         \/ Reconcile(w) \/ MarkReconciliation(w) \/ ListTransactions(w) \/ ReceiptsDone(w)
         \/ MarkUnknown(w) \/ MarkConfirming(w) \/ ReadAfterConfirm(w) \/ MarkVerifying(w)
         \/ PostDeployChecks(w) \/ WriteVerdict(w) \/ CatchAfterBroadcast(w) \/ Caught(w)
  PROVE  SInv'
<1> DEFINE Later == {"toRecon", "confirm", "returning", "throwing", "finally", "finallyThrow", "written",
                     "caught", "receipts", "unknown", "toConfirming", "afterConfirm", "toVerifying",
                     "verify", "toFailed"}
<1> USE DEF At, Write, Continue, Step, worldVars, dbVars, apiVars
<1>1. \A pc \in Later : /\ pc \in Pcs /\ pc # "idle"
                        /\ pc \notin Preparing \cup BeforeLaunch \cup ScriptTry
                                       \cup {"failing", "aborting", "toCompleted"}
  BY DEF Pcs, Preparing, PrepareTry, BeforeLaunch, ScriptTry, ConfirmTry
<1>2. ASSUME NEW pc \in Later, NEW seen, Goto(w, pc, seen),
             worker[w].pc \notin {"idle", "written", "returning"},
             UNCHANGED <<deployer, jobs, apiVars, creds, worldVars, txRows>>,
             status' \in {status} \cup (Statuses \ PreBroadcast)
      PROVE  SInv'
  BY <1>1, <1>2, StaysAllowed, GotoKeepsS
<1>3. /\ AfterTry(w) \in Later /\ AfterThrow(w) \in Later
      /\ {"CONFIRMING", "VERIFYING", "COMPLETED", "FAILED", "RECONCILIATION_REQUIRED"}
           \subseteq Statuses \ PreBroadcast
  BY DEF AfterTry, AfterThrow, Statuses, PreBroadcast
<1>4. CASE Reconcile(w)
  BY <1>2, <1>4 DEF Reconcile
<1>5. CASE MarkReconciliation(w) \/ MarkUnknown(w)
  BY <1>2, <1>3, <1>5 DEF MarkReconciliation, MarkUnknown
<1>6. CASE ListTransactions(w)
  <2>1. Loop(w, "receipts", Recorded, FALSE) /\ worker[w].pc = "confirm"
    BY <1>6 DEF ListTransactions
  <2>2. Allows(w, "receipts")
    BY <1>1, <1>6, <2>1, StaysAllowed DEF ListTransactions
  <2> QED BY <1>1, <1>6, <2>1, <2>2, LoopKeepsS DEF ListTransactions
<1>7. CASE ReceiptsDone(w)
  BY <1>2, <1>3, <1>7 DEF ReceiptsDone
<1>8. CASE MarkConfirming(w) \/ ReadAfterConfirm(w) \/ MarkVerifying(w)
  BY <1>2, <1>3, <1>8 DEF MarkConfirming, ReadAfterConfirm, MarkVerifying
<1>9. CASE PostDeployChecks(w)
  <2>1. CASE ChecksCanPass(w) /\ Continue(w, "toCompleted", "NONE")
    <3>1. Allows(w, "toCompleted")
      <4>1. Executes(w, "prepare") => status # "PREPARED"
        BY <1>9 DEF PostDeployChecks, Base, SInv, OwedInv
      <4> QED BY <2>1, <4>1 DEF Allows, ChecksCanPass, Preparing, PrepareTry, BeforeLaunch, ScriptTry
    <3> QED BY <1>9, <2>1, <3>1, GotoKeepsS DEF PostDeployChecks, Pcs, ConfirmTry
  <2>2. CASE Continue(w, "toFailed", "NONE")
    BY <1>2, <1>9, <2>2 DEF PostDeployChecks
  <2> QED BY <1>9, <2>1, <2>2 DEF PostDeployChecks
<1>10. CASE WriteVerdict(w)
  BY <1>2, <1>3, <1>10 DEF WriteVerdict
<1>11. CASE CatchAfterBroadcast(w)
  BY <1>2, <1>11 DEF CatchAfterBroadcast, ScriptTry, ConfirmTry
<1>12. CASE Caught(w)
  BY <1>2, <1>12 DEF Caught
<1> QED BY <1>4, <1>5, <1>6, <1>7, <1>8, <1>9, <1>10, <1>11, <1>12

\* The end of a handler, but leaving it.
LEMMA EndMoves ==
  ASSUME Base, NEW w \in Workers, LastWriteAnswered(w) \/ Fail(w) \/ DatabaseLost(w)
  PROVE  SInv'
<1> USE DEF At, Continue, Step, worldVars, dbVars, apiVars
<1>0. /\ Executes(w, "prepare") => worker[w].handler # "broadcast"
      /\ Executes(w, "prepare") /\ status = "PREPARED" => worker[w].pc \in {"written", "returning"}
  BY DEF Base, SInv, OwedInv
<1>1. CASE LastWriteAnswered(w)
  <2>1. Allows(w, AfterTry(w))
    BY <1>0, <1>1 DEF LastWriteAnswered, Allows, AfterTry, Preparing, PrepareTry, BeforeLaunch,
                      ScriptTry, Executes
  <2>2. AfterTry(w) \in Pcs /\ AfterTry(w) # "idle"
    BY DEF AfterTry, Pcs
  <2> QED BY <1>1, <2>1, <2>2, GotoKeepsS DEF LastWriteAnswered
<1>2. CASE Fail(w)
  <2> DEFINE pc == IF At(w, "aborting") THEN "finally" ELSE "returning"
  <2>1. pc \in {"finally", "returning"} /\ worker[w].pc \in {"failing", "aborting"}
        /\ status' \in {status, "FAILED"} /\ Goto(w, pc, "NONE")
        /\ UNCHANGED <<deployer, expected, txRows, jobs, apiVars, creds, worldVars, crashes>>
    BY <1>2 DEF Fail
  <2> HIDE DEF pc
  <2>2. Allows(w, pc)
    BY <1>0, <2>1 DEF Allows, Preparing, PrepareTry, BeforeLaunch, ScriptTry, Statuses, PreBroadcast
  <2> QED BY <2>1, <2>2, GotoKeepsS DEF Pcs
<1>3. CASE DatabaseLost(w)
  <2>1. PICK pc \in {"finallyThrow", "throwing"} : Goto(w, pc, "NONE")
    BY <1>3 DEF DatabaseLost
  <2>2. worker[w].pc \notin {"idle", "written", "returning"} /\ UNCHANGED <<dbVars, jobs, apiVars, creds, crashes, worldVars>>
    BY <1>3 DEF DatabaseLost, Base, Staging
  <2>3. Allows(w, pc)
    BY <2>1, <2>2, StaysAllowed DEF Preparing, PrepareTry, BeforeLaunch, ScriptTry
  <2> QED BY <2>1, <2>2, <2>3, GotoKeepsS DEF Pcs
<1> QED BY <1>1, <1>2, <1>3

\* A job is taken up.  Nothing was launched if it is to be prepared, or if
\* its key is there.
TakeAllowed(w, j, handler, pc) ==
  /\ pc \in Preparing => j = "prepare" /\ (status \in {"ABSENT", "QUEUED"} => pc = "toChecking")
  /\ j = "prepare" => handler # "broadcast" /\ (status = "PREPARED" => pc = "returning")
  /\ pc \in BeforeLaunch \cup {"failing"} => j = "broadcast" /\ status \in {"PREPARED", "FUNDING"}
  /\ pc \in BeforeLaunch => creds[w] # None
  /\ pc \notin ScriptTry \cup {"aborting", "toCompleted", "idle"}

LEMMA TakeKeepsS ==
  ASSUME Base, NEW w \in Workers, NEW j \in JobNames,
         NEW handler \in {"none", "prepare", "broadcast", "reconcile"},
         NEW pc \in Pcs, NEW seen \in SeenValues, Take(w, j, handler, pc, seen),
         UNCHANGED <<dbVars, apiVars, creds, worldVars, crashes>>,
         TakeAllowed(w, j, handler, pc)
  PROVE  SInv'
<1>0. \A v \in Workers : v = w
  BY DEF Base, Staging
<1>1. /\ worker[w].pc = "idle" /\ worker'[w].pc = pc /\ worker'[w].job = j
      /\ worker'[w].handler = handler
      /\ jobs[j].state = "waiting" /\ jobs'[j].state = "active" /\ jobs'[j].holder = w
      /\ \A k \in JobNames \ {j} : jobs'[k] = jobs[k]
  <2>1. jobs \in [JobNames -> JobStates] /\ worker \in [Workers -> WorkerStates]
    BY DEF Base, IInv, TypeOK
  <2>2. /\ worker[w].pc = "idle" /\ worker'[w].pc = pc /\ worker'[w].job = j
        /\ worker'[w].handler = handler
    BY <2>1, TakeEffect
  <2>3. /\ jobs[j].state = "waiting"
        /\ jobs' = [jobs EXCEPT ![j].state = "active", ![j].holder = w]
    BY DEF Take
  <2>4. /\ jobs'[j].state = "active" /\ jobs'[j].holder = w
        /\ \A k \in JobNames \ {j} : jobs'[k] = jobs[k]
    BY <2>1, <2>3 DEF JobStates
  <2> QED BY <2>2, <2>3, <2>4
<1>2. LockInv'
  BY <1>0, <1>1 DEF LockInv
<1>3. PrepareOwed' = PrepareOwed
  BY <1>1 DEF PrepareOwed, JobNames
<1>4. UnissuedInv'
  <2>1. \A k \in JobNames : jobs'[k].state = "none" <=> jobs[k].state = "none"
    BY <1>1
  <2>2. status # "ABSENT"
    BY <1>1 DEF Base, SInv, UnissuedInv
  <2> QED BY <1>0, <1>1, <2>1, <2>2 DEF Base, SInv, UnissuedInv, TakeAllowed, dbVars, apiVars, worldVars, JobNames
<1>5. OwedInv'
  <2>1. pc \in BeforeLaunch => ~ PrepareOwed
    <3>1. ~ Executes(w, "prepare")
      BY <1>1 DEF Executes
    <3> QED BY <3>1 DEF Base, SInv, OwedInv, TakeAllowed
  <2>2. status' = status /\ creds' = creds /\ issued' = issued
    BY DEF dbVars, worldVars
  <2>3. ~ Executes(w, "prepare")
    BY <1>1 DEF Executes
  <2>4. Executes(w, "prepare")' => j = "prepare"
    BY <1>1 DEF Executes
  <2> QED BY <1>0, <1>1, <1>3, <2>1, <2>2, <2>3, <2>4 DEF Base, SInv, OwedInv, TakeAllowed
<1>6. LaunchInv'
  <2>1. launched # {} => pc # "failing"
    BY DEF Base, SInv, LaunchInv, TakeAllowed, PreBroadcast
  <2> QED BY <1>0, <1>1, <1>3, <2>1 DEF Base, SInv, LaunchInv, dbVars, worldVars, Journaled
<1>7. DeployerInv'
  BY <1>0, <1>1 DEF Base, SInv, DeployerInv, TakeAllowed, dbVars
<1>8. AbortInv' /\ VerdictInv'
  BY <1>0, <1>1 DEF AbortInv, VerdictInv, TakeAllowed, ScriptTry
<1> QED BY <1>2, <1>4, <1>5, <1>6, <1>7, <1>8 DEF SInv

LEMMA StartsKeepS ==
  ASSUME Base, NEW w \in Workers, StartPrepare(w) \/ StartBroadcast(w) \/ StartReconcile(w)
  PROVE  SInv'
<1> USE DEF JobNames, Preparing, PrepareTry, BeforeLaunch, ScriptTry, ConfirmTry, Pcs, SeenValues
<1>0. status \in SeenValues
  BY DEF Base, IInv, TypeOK
<1>1. CASE StartPrepare(w)
  <2>1. PICK handler \in {"none", "prepare", "broadcast", "reconcile"}, pc \in Pcs :
          /\ Take(w, "prepare", handler, pc, "NONE")
          /\ handler # "broadcast" /\ pc \in {"returning", "reconcile", "toChecking", "checking"}
          /\ status = "PREPARED" => pc = "returning"
          /\ status = "QUEUED" => pc = "toChecking"
    BY <1>1 DEF StartPrepare, PastBroadcast
  <2>2. status # "ABSENT"
    BY <2>1 DEF Take, Base, SInv, UnissuedInv
  <2>3. TakeAllowed(w, "prepare", handler, pc)
    BY <2>1, <2>2 DEF TakeAllowed
  <2> QED BY <1>1, <2>1, <2>3, TakeKeepsS DEF StartPrepare
<1>2. CASE StartBroadcast(w)
  <2>1. PICK handler \in {"none", "prepare", "broadcast", "reconcile"}, pc \in Pcs, seen \in SeenValues :
          /\ Take(w, "broadcast", handler, pc, seen)
          /\ pc \in {"returning", "reconcile", "throwing", "failing", "toFunding", "funding"}
          /\ pc \in {"failing", "toFunding", "funding"} => status \in {"PREPARED", "FUNDING"}
          /\ pc \in {"toFunding", "funding"} => creds[w] # None
    BY <1>0, <1>2 DEF StartBroadcast, PastBroadcast
  <2>2. TakeAllowed(w, "broadcast", handler, pc)
    BY <2>1 DEF TakeAllowed
  <2> QED BY <1>2, <2>1, <2>2, TakeKeepsS DEF StartBroadcast
<1>3. CASE StartReconcile(w)
  <2>1. TakeAllowed(w, "reconcile", "reconcile", "reconcile")
    BY DEF TakeAllowed
  <2> QED BY <1>3, <2>1, TakeKeepsS DEF StartReconcile
<1> QED BY <1>1, <1>2, <1>3

\* A handler ends: only the prepare job that is retried stays owed, and it
\* did not leave the run PREPARED.
LEMMA SettlesKeepS ==
  ASSUME Base, NEW w \in Workers, Return(w) \/ Throw(w)
  PROVE  SInv'
<1>0. \A v \in Workers : v = w
  BY DEF Base, Staging
<1> DEFINE j == worker[w].job
<1>1. /\ j \in JobNames /\ jobs[j].state = "active" /\ jobs[j].holder = w /\ worker[w].pc # "idle"
  BY DEF Return, Throw, At, Base, IInv, TypeOK, SInv, LockInv
<1>2. PICK state \in {"waiting", "done"}, attempts \in Nat :
        /\ Settle(w, state, attempts)
        /\ worker[w].pc = "returning" => state = "done"
        /\ worker[w].pc \in {"returning", "throwing"}
        /\ UNCHANGED <<dbVars, apiVars, creds, worldVars, crashes>>
  <2>1. jobs[j].attempts \in Nat /\ jobs[j].attempts + 1 \in Nat
    BY <1>1 DEF Base, IInv, TypeOK, JobStates
  <2>2. CASE Return(w)
    BY <2>1, <2>2 DEF Return, At
  <2>3. CASE Throw(w)
    BY <2>1, <2>3 DEF Throw, At
  <2> QED BY <2>2, <2>3
<1>3. /\ worker' = [worker EXCEPT ![w] = Idle]
      /\ jobs' = [jobs EXCEPT ![j].state = state, ![j].holder = None, ![j].attempts = attempts]
  BY <1>1, <1>2 DEF Settle
<1>4. /\ worker'[w] = Idle /\ jobs'[j].state = state
      /\ \A k \in JobNames \ {j} : jobs'[k] = jobs[k]
  <2>1. jobs \in [JobNames -> JobStates] /\ jobs[j] \in JobStates /\ worker \in [Workers -> WorkerStates]
    BY <1>1 DEF Base, IInv, TypeOK
  <2>2. worker'[w] = Idle /\ \A k \in JobNames \ {j} : jobs'[k] = jobs[k]
    BY <1>3, <2>1
  <2>3. jobs'[j].state = state
    BY <1>1, <1>3, <2>1 DEF JobStates
  <2> QED BY <2>2, <2>3
<1> HIDE DEF j
<1>5. worker'[w].pc = "idle"
  BY <1>4 DEF Idle
<1>6. PrepareOwed' => PrepareOwed
  BY <1>1, <1>4 DEF PrepareOwed, JobNames
<1>7. LockInv' /\ DeployerInv' /\ AbortInv' /\ VerdictInv'
  BY <1>0, <1>2, <1>5 DEF LockInv, Base, SInv, DeployerInv, AbortInv, VerdictInv, ScriptTry, dbVars
<1>8. UnissuedInv'
  <2>1. \A k \in JobNames : jobs'[k].state = "none" <=> jobs[k].state = "none"
    BY <1>1, <1>4
  <2>2. worker'[w].pc \notin Preparing
    BY <1>5 DEF Preparing, PrepareTry
  <2> QED BY <1>0, <1>2, <2>1, <2>2 DEF Base, SInv, UnissuedInv, dbVars, apiVars, worldVars, JobNames
<1>9. OwedInv'
  <2>1. ~ Executes(w, "prepare")' /\ worker'[w].pc \notin BeforeLaunch
    BY <1>5 DEF Executes, BeforeLaunch
  <2>2. UNCHANGED <<status, issued, creds>>
    BY <1>2 DEF dbVars, worldVars
  <2>3. ASSUME status = "PREPARED", creds[w] # None PROVE ~ PrepareOwed'
    <3>1. CASE j = "prepare"
      <4>1. worker[w].pc = "returning"
        BY <1>1, <1>2, <2>3, <3>1 DEF Base, SInv, OwedInv, Executes, j
      <4> QED BY <1>2, <1>4, <3>1, <4>1 DEF PrepareOwed
    <3>2. CASE j # "prepare"
      BY <1>6, <2>3, <3>2 DEF Base, SInv, OwedInv, Executes, j
    <3> QED BY <3>1, <3>2
  <2> QED BY <1>0, <1>6, <2>1, <2>2, <2>3 DEF Base, SInv, OwedInv
<1>10. LaunchInv'
  BY <1>0, <1>2, <1>5, <1>6 DEF Base, SInv, LaunchInv, dbVars, worldVars, Journaled
<1> QED BY <1>7, <1>8, <1>9, <1>10 DEF SInv

\* The key is destroyed, in the finally block or with the process.
LEMMA KeyGone ==
  ASSUME Base, NEW w \in Workers, Finally(w) \/ Crash(w)
  PROVE  SInv'
<1>0. \A v \in Workers : v = w
  BY DEF Base, Staging
<1>1. /\ creds'[w] = None /\ UNCHANGED <<dbVars, jobs, apiVars, issued, launched, net>>
      /\ running' \subseteq running
  BY DEF Finally, Crash, Base, IInv, TypeOK, worldVars
<1>2. /\ worker'[w].pc \in {"idle", "returning", "throwing"}
      /\ worker'[w].pc # "idle" => /\ worker[w].pc \in {"finally", "finallyThrow"}
                                   /\ worker'[w].job = worker[w].job
                                   /\ worker'[w].handler = worker[w].handler
  <2>1. worker \in [Workers -> WorkerStates]
    BY DEF Base, IInv, TypeOK
  <2>2. CASE Finally(w)
    BY <2>1, <2>2 DEF Finally, At, Goto, WorkerStates
  <2>3. CASE Crash(w)
    BY <2>1, <2>3 DEF Crash, Idle
  <2> QED BY <2>2, <2>3
<1>3. LockInv'
  BY <1>0, <1>1, <1>2 DEF LockInv, Base, SInv
<1>4. UnissuedInv'
  BY <1>0, <1>1, <1>2 DEF Base, SInv, UnissuedInv, Preparing, PrepareTry, dbVars, apiVars
<1>5. OwedInv'
  <2>1. /\ PrepareOwed' = PrepareOwed
        /\ Executes(w, "prepare")' => Executes(w, "prepare") /\ worker'[w].pc # "idle"
    BY <1>1, <1>2 DEF PrepareOwed, Executes
  <2> QED BY <1>0, <1>1, <1>2, <2>1 DEF Base, SInv, OwedInv, BeforeLaunch, dbVars
<1>6. LaunchInv'
  BY <1>0, <1>1, <1>2 DEF Base, SInv, LaunchInv, PrepareOwed, dbVars, Journaled
<1>7. DeployerInv' /\ AbortInv' /\ VerdictInv'
  BY <1>0, <1>1, <1>2 DEF DeployerInv, AbortInv, VerdictInv, ScriptTry
<1> QED BY <1>3, <1>4, <1>5, <1>6, <1>7 DEF SInv

-----------------------------------------------------------------------------
(* The steps of the handlers that are more than a move.                    *)

LEMMA IssueKeepsS ==
  ASSUME Base, NEW w \in Workers, IssueCredential(w)
  PROVE  SInv'
<1>0. \A v \in Workers : v = w
  BY DEF Base, Staging
<1>1. PICK c \in Creds \ issued : /\ creds' = [creds EXCEPT ![w] = c]
                                  /\ issued' = issued \cup {c} /\ deployer' = c
  BY DEF IssueCredential
<1>2. /\ worker[w].pc = "issue" /\ worker'[w].pc = "toSimulating" /\ creds'[w] = c
      /\ worker'[w].job = worker[w].job /\ worker'[w].handler = worker[w].handler
      /\ UNCHANGED <<status, expected, txRows, jobs, apiVars, running, net, launched>>
  BY <1>1 DEF IssueCredential, At, Goto, Base, IInv, TypeOK, WorkerStates
<1>3. /\ worker[w].job = "prepare" /\ jobs["prepare"].state = "active"
      /\ status \notin {"ABSENT", "QUEUED"} /\ launched = {}
  <2>1. worker[w].pc \in Preparing \ {"toChecking"}
    BY <1>2 DEF Preparing, PrepareTry
  <2>2. worker[w].job = "prepare" /\ status \notin {"ABSENT", "QUEUED"} /\ launched = {}
    BY <2>1, NotLaunched DEF Base, SInv, UnissuedInv
  <2> QED BY <1>2, <2>2 DEF Base, SInv, LockInv
<1>4. PrepareOwed /\ PrepareOwed' = PrepareOwed /\ Executes(w, "prepare") /\ Executes(w, "prepare")'
  BY <1>2, <1>3 DEF PrepareOwed, Executes
<1>5. LockInv'
  BY <1>0, <1>2 DEF LockInv, Base, SInv
<1>6. UnissuedInv'
  BY <1>0, <1>2, <1>3 DEF UnissuedInv, apiVars
<1>7. OwedInv'
  <2>1. status \notin {"FUNDING", "PREPARED"}
    BY <1>2, <1>4 DEF Base, SInv, OwedInv
  <2> QED BY <1>0, <1>2, <1>4, <2>1 DEF Base, SInv, OwedInv, BeforeLaunch
<1>8. LaunchInv'
  BY <1>2, <1>3 DEF Base, SInv, LaunchInv, Journaled
<1>9. DeployerInv' /\ AbortInv' /\ VerdictInv'
  BY <1>0, <1>1, <1>2 DEF DeployerInv, AbortInv, VerdictInv, ScriptTry
<1> QED BY <1>5, <1>6, <1>7, <1>8, <1>9 DEF SInv

LEMMA LaunchKeepsS ==
  ASSUME Base, NEW w \in Workers, MarkBroadcasting(w)
  PROVE  SInv'
<1>0. \A v \in Workers : v = w
  BY DEF Base, Staging
<1>1. /\ worker[w].pc = "toBroadcasting" /\ worker'[w].pc = "script" /\ status' = "BROADCASTING"
      /\ worker'[w].job = worker[w].job /\ worker'[w].handler = worker[w].handler
      /\ launched' = launched \cup {creds[w]} /\ running' = running \cup {creds[w]}
      /\ UNCHANGED <<deployer, expected, issued, net, txRows, jobs, apiVars, creds>>
  BY DEF MarkBroadcasting, Write, At, Goto, Base, IInv, TypeOK, WorkerStates
<1>2. worker[w].pc \in BeforeLaunch
  BY <1>1 DEF BeforeLaunch
<1>3. /\ launched = {} /\ ~ PrepareOwed /\ creds[w] \in Creds
      /\ creds[w] # None /\ ~ Executes(w, "prepare")
  <2>1. launched = {} /\ ~ PrepareOwed /\ creds[w] \in Creds
    BY <1>2, NotLaunched DEF Base, SInv, OwedInv, IInv, KeysInv, KeyHeld
  <2>2. ~ Executes(w, "prepare")
    BY <2>1 DEF Base, SInv, LockInv, Executes, PrepareOwed
  <2> QED BY <2>1, <2>2, ConstantsOK
<1>4. PrepareOwed' = PrepareOwed /\ ~ Executes(w, "prepare")'
  BY <1>1, <1>3 DEF PrepareOwed, Executes
<1>5. LockInv' /\ UnissuedInv'
  BY <1>0, <1>1 DEF LockInv, UnissuedInv, Base, SInv, apiVars, Preparing, PrepareTry
<1>6. OwedInv'
  BY <1>0, <1>1, <1>3, <1>4 DEF OwedInv
<1>7. LaunchInv'
  BY <1>0, <1>1, <1>3, <1>4 DEF Base, SInv, LaunchInv, Journaled, PreBroadcast
<1>8. DeployerInv' /\ AbortInv' /\ VerdictInv'
  BY <1>0, <1>1, <1>3 DEF Base, SInv, DeployerInv, AbortInv, VerdictInv
<1> QED BY <1>5, <1>6, <1>7, <1>8 DEF SInv

\* What a step of the broadcast handler after the launch keeps besides AbortInv.
LEMMA ScriptKeepsS ==
  ASSUME Base, NEW w \in Workers,
         worker[w].pc \in ScriptTry \cup {"receipts"}, worker'[w].pc \in ScriptTry \cup {"receipts"},
         worker'[w].pc \in ScriptTry => worker[w].pc \in ScriptTry,
         worker'[w].job = worker[w].job, worker'[w].handler = worker[w].handler,
         running' \subseteq running,
         UNCHANGED <<status, deployer, jobs, toEnqueue, creds, issued, launched, net>>
  PROVE  LockInv' /\ UnissuedInv' /\ OwedInv' /\ LaunchInv' /\ DeployerInv' /\ VerdictInv'
<1>0. \A v \in Workers : v = w
  BY DEF Base, Staging
<1>1. LockInv' /\ UnissuedInv' /\ VerdictInv'
  BY <1>0 DEF LockInv, UnissuedInv, VerdictInv, Base, SInv, Preparing, PrepareTry, ScriptTry
<1>2. PrepareOwed' = PrepareOwed /\ Executes(w, "prepare")' = Executes(w, "prepare")
  BY DEF PrepareOwed, Executes, ScriptTry
<1>3. OwedInv'
  BY <1>0, <1>2 DEF Base, SInv, OwedInv, BeforeLaunch, ScriptTry
<1>4. LaunchInv'
  BY <1>0, <1>2 DEF Base, SInv, LaunchInv, Journaled, ScriptTry
<1>5. DeployerInv'
  BY <1>0 DEF Base, SInv, DeployerInv
<1> QED BY <1>1, <1>3, <1>4, <1>5

LEMMA RecordingKeepsS ==
  ASSUME Base, NEW w \in Workers, ScriptReturns(w) \/ RecordTransaction(w) \/ LookUpReceipt(w)
  PROVE  SInv'
<1>0. /\ \A v \in Workers : v = w
      /\ worker \in [Workers -> WorkerStates]
      /\ txRows \in [Tx -> TxStatuses]
  BY DEF Base, Staging, IInv, TypeOK
<1>1. CASE ScriptReturns(w)
  <2>1. PICK result \in {"OK", "ERROR", "TIMEOUT"} :
          /\ running' = IF result = "TIMEOUT" THEN running ELSE running \ {creds[w]}
          /\ worker' = [worker EXCEPT ![w] =
               [@ EXCEPT !.pc = "recording", !.seen = result, !.left = JournalOf(creds[w])]]
    BY <1>1 DEF ScriptReturns
  <2>2. /\ worker[w].pc = "script" /\ worker'[w].pc = "recording" /\ worker'[w].seen = result
        /\ worker'[w].left = JournalOf(creds[w])
        /\ worker'[w].job = worker[w].job /\ worker'[w].handler = worker[w].handler
        /\ UNCHANGED <<dbVars, jobs, apiVars, creds, crashes, issued, net, launched>>
    <3>1. worker[w] \in WorkerStates
      BY <1>0
    <3>2. /\ worker'[w].pc = "recording" /\ worker'[w].seen = result
          /\ worker'[w].left = JournalOf(creds[w])
          /\ worker'[w].job = worker[w].job /\ worker'[w].handler = worker[w].handler
      BY <1>0, <2>1, <3>1 DEF WorkerStates
    <3> QED BY <1>1, <3>2 DEF ScriptReturns, At
  <2>3. LockInv' /\ UnissuedInv' /\ OwedInv' /\ LaunchInv' /\ DeployerInv' /\ VerdictInv'
    BY <2>1, <2>2, ScriptKeepsS DEF ScriptTry, dbVars, apiVars
  <2>4. JournalOf(creds[w])' = JournalOf(creds[w])
    BY <2>2 DEF JournalOf, Journaled
  <2>5. AbortInv'
    BY <1>0, <2>1, <2>2, <2>4 DEF Base, SInv, AbortInv, ScriptTry
  <2> QED BY <2>3, <2>5 DEF SInv
<1>2. CASE RecordTransaction(w)
  <2>1. PICK t \in worker[w].left :
          /\ txRows' = [txRows EXCEPT ![t] = "SUBMITTED"]
          /\ Loop(w, worker[w].pc, worker[w].left \ {t}, FALSE)
    BY <1>2 DEF RecordTransaction
  <2>2. /\ worker[w].pc \in {"recording", "artifacts"} /\ worker'[w].pc = worker[w].pc
        /\ worker'[w].seen = worker[w].seen /\ worker'[w].left = worker[w].left \ {t}
        /\ worker'[w].job = worker[w].job /\ worker'[w].handler = worker[w].handler
        /\ UNCHANGED <<status, deployer, expected, jobs, apiVars, creds, worldVars, crashes>>
    <3>1. worker[w] \in WorkerStates
      BY <1>0
    <3>2. /\ worker'[w].pc = worker[w].pc
          /\ worker'[w].seen = worker[w].seen /\ worker'[w].left = worker[w].left \ {t}
          /\ worker'[w].job = worker[w].job /\ worker'[w].handler = worker[w].handler
      BY <1>0, <2>1, <3>1 DEF Loop, WorkerStates
    <3> QED BY <1>2, <3>2 DEF RecordTransaction, At
  <2>3. LockInv' /\ UnissuedInv' /\ OwedInv' /\ LaunchInv' /\ DeployerInv' /\ VerdictInv'
    BY <2>2, ScriptKeepsS DEF ScriptTry, worldVars, apiVars
  <2>4. t \in Tx /\ Recorded' = Recorded \cup {t}
    <3>1. t \in Tx
      BY <1>0 DEF WorkerStates
    <3>2. \A u \in Tx : txRows'[u] = IF u = t THEN "SUBMITTED" ELSE txRows[u]
      BY <1>0, <2>1
    <3> QED BY <3>1, <3>2 DEF Recorded
  <2>5. JournalOf(creds[w])' = JournalOf(creds[w]) /\ launched' = launched /\ running' = running
    BY <2>2 DEF JournalOf, Journaled, worldVars
  <2>6. AbortInv'
    BY <1>0, <2>2, <2>4, <2>5 DEF Base, SInv, AbortInv, ScriptTry
  <2> QED BY <2>3, <2>6 DEF SInv
<1>3. CASE LookUpReceipt(w)
  <2>1. PICK left, unknown : Loop(w, "receipts", left, unknown)
    BY <1>3 DEF LookUpReceipt
  <2>2. /\ worker[w].pc = "receipts" /\ worker'[w].pc = "receipts"
        /\ worker'[w].job = worker[w].job /\ worker'[w].handler = worker[w].handler
        /\ UNCHANGED <<status, deployer, expected, jobs, apiVars, creds, worldVars, crashes>>
    <3>1. worker[w] \in WorkerStates
      BY <1>0
    <3>2. /\ worker'[w].pc = "receipts"
          /\ worker'[w].job = worker[w].job /\ worker'[w].handler = worker[w].handler
      BY <1>0, <2>1, <3>1 DEF Loop, WorkerStates
    <3> QED BY <1>3, <3>2 DEF LookUpReceipt, At
  <2>3. LockInv' /\ UnissuedInv' /\ OwedInv' /\ LaunchInv' /\ DeployerInv' /\ VerdictInv'
    BY <2>2, ScriptKeepsS DEF ScriptTry, worldVars, apiVars
  <2>4. AbortInv'
    BY <1>0, <2>2 DEF AbortInv, ScriptTry
  <2> QED BY <2>3, <2>4 DEF SInv
<1> QED BY <1>1, <1>2, <1>3

-----------------------------------------------------------------------------
(* The API, the queue and the network.                                     *)

\* What the steps outside the handlers leave alone.
Outside == UNCHANGED <<deployer, txRows, worker, creds, issued, launched>>

LEMMA OutsideKeeps ==
  ASSUME Base, Outside, running' \subseteq running, net' = net
  PROVE  DeployerInv' /\ AbortInv' /\ VerdictInv'
<1>1. DeployerInv' /\ VerdictInv'
  BY DEF Base, SInv, Outside, DeployerInv, VerdictInv, Recorded
<1>2. Journaled' = Journaled /\ \A c : JournalOf(c)' = JournalOf(c)
  BY DEF Journaled, JournalOf
<1>3. AbortInv'
  BY <1>2 DEF Base, SInv, Outside, AbortInv, Recorded
<1> QED BY <1>1, <1>3

LEMMA ApiKeepsS ==
  ASSUME Base, ApiStep
  PROVE  SInv'
<1> USE DEF apiVars, workerVars, worldVars, dbVars
<1>1. Outside /\ UNCHANGED <<running, net>> /\ DeployerInv' /\ AbortInv' /\ VerdictInv'
  <2>1. Outside /\ UNCHANGED <<running, net>>
    BY DEF ApiStep, RequestPrepare, RequestConfirm, RequestReconcile, RequestCancel, WriteCancelled, Outside
  <2> QED BY <2>1, OutsideKeeps
<1>2. CASE RequestPrepare
  <2>1. issued = {} /\ launched = {}
    BY <1>2 DEF RequestPrepare, Base, SInv, UnissuedInv, IInv, KeysInv
  <2>2. LockInv'
    BY <1>2 DEF RequestPrepare, Base, SInv, LockInv
  <2>3. UnissuedInv'
    BY <1>1, <1>2, <2>1 DEF RequestPrepare, Base, SInv, UnissuedInv, Outside
  <2>4. OwedInv'
    BY <1>2 DEF RequestPrepare, Base, SInv, OwedInv, PrepareOwed, Executes
  <2>5. LaunchInv'
    BY <1>1, <2>1 DEF Base, SInv, LaunchInv, Outside, Journaled
  <2> QED BY <1>1, <2>2, <2>3, <2>4, <2>5 DEF SInv
<1>3. CASE RequestConfirm
  BY <1>1, <1>3 DEF RequestConfirm, Base, SInv, LockInv, UnissuedInv, OwedInv, LaunchInv,
                    PrepareOwed, Executes, Journaled
<1>4. CASE RequestReconcile
  <2>1. /\ jobs["reconcile"].state = "none" /\ status # "ABSENT"
        /\ \A k \in JobNames \ {"reconcile"} : jobs'[k] = jobs[k]
        /\ UNCHANGED <<status, toEnqueue, issued, creds, worker, running, launched, net>>
    BY <1>4 DEF RequestReconcile, Base, IInv, TypeOK
  <2>2. jobs'["prepare"] = jobs["prepare"]
    BY <2>1 DEF JobNames
  <2>3. LockInv'
    BY <2>1 DEF Base, SInv, LockInv, IInv, TypeOK
  <2>4. UnissuedInv' /\ OwedInv' /\ LaunchInv'
    BY <2>1, <2>2 DEF Base, SInv, UnissuedInv, OwedInv, LaunchInv, PrepareOwed, Executes, Journaled
  <2> QED BY <1>1, <2>3, <2>4 DEF SInv
<1>5. CASE RequestCancel
  BY <1>1, <1>5 DEF RequestCancel, Base, SInv, LockInv, UnissuedInv, OwedInv, LaunchInv,
                    PrepareOwed, Executes, Journaled
<1>6. CASE WriteCancelled
  BY <1>1, <1>6 DEF WriteCancelled, Base, SInv, LockInv, UnissuedInv, OwedInv, LaunchInv,
                    PrepareOwed, Executes, Journaled, PreBroadcast
<1> QED BY <1>2, <1>3, <1>4, <1>5, <1>6 DEF ApiStep

LEMMA QueueKeepsS ==
  ASSUME Base, NEW j \in JobNames, QueueStep(j)
  PROVE  SInv'
<1> USE DEF apiVars, workerVars, worldVars, dbVars
<1>0. jobs \in [JobNames -> JobStates]
  BY DEF Base, IInv, TypeOK
<1>1. /\ Outside /\ UNCHANGED <<status, running, net>> /\ DeployerInv' /\ AbortInv' /\ VerdictInv'
      /\ \A k \in JobNames \ {j} : jobs'[k] = jobs[k] /\ (k \in toEnqueue' <=> k \in toEnqueue)
      /\ toEnqueue' \subseteq toEnqueue
  <2>1. Outside /\ UNCHANGED <<status, running, net>> /\ toEnqueue' \in {toEnqueue, toEnqueue \ {j}}
    BY DEF QueueStep, Enqueue, DropEnqueue, StalledCheck, Evict, Outside
  <2>2. \A k \in JobNames \ {j} : jobs'[k] = jobs[k]
    BY <1>0 DEF QueueStep, Enqueue, DropEnqueue, StalledCheck, Evict
  <2> QED BY <2>1, <2>2, OutsideKeeps
<1>2. /\ jobs'[j].state = "none" => j \notin toEnqueue' \/ jobs[j].state = "none"
      /\ jobs[j].state = "none" /\ j \notin toEnqueue => jobs'[j].state = "none"
      /\ jobs'[j].state \in {"waiting", "active"} =>
           jobs[j].state = "active" \/ jobs'[j].state = jobs[j].state
             \/ (jobs[j].state = "none" /\ j \in toEnqueue)
  <2>1. CASE Enqueue(j)
    BY <1>0, <2>1 DEF Enqueue, JobStates
  <2>2. CASE DropEnqueue(j)
    BY <2>2 DEF DropEnqueue
  <2>3. CASE StalledCheck(j)
    <3>1. jobs[j].state = "active" /\ toEnqueue' = toEnqueue /\ jobs'[j].state \in {"waiting", "done"}
      BY <1>0, <2>3 DEF StalledCheck, JobStates
    <3> QED BY <3>1
  <2>4. CASE Evict(j)
    BY <1>0, <2>4 DEF Evict, NewJob
  <2> QED BY <2>1, <2>2, <2>3, <2>4 DEF QueueStep
<1>3. LockInv'
  <2> SUFFICES ASSUME NEW w \in Workers, worker[w].pc # "idle", worker[w].job = j
               PROVE  jobs'[j].state = "active" /\ jobs'[j].holder = w
    BY <1>1 DEF Base, SInv, LockInv, Outside, IInv, TypeOK
  <2>1. jobs[j].state = "active" /\ jobs[j].holder = w
    BY DEF Base, SInv, LockInv
  <2>2. jobs' = jobs
    BY <2>1 DEF QueueStep, Enqueue, DropEnqueue, StalledCheck, Evict, Executing, Base, Staging
  <2> QED BY <2>1, <2>2
<1>4. UnissuedInv'
  <2>1. "prepare" \in toEnqueue' /\ jobs'["prepare"].state = "none"
          => "prepare" \in toEnqueue /\ jobs["prepare"].state = "none"
    BY <1>1, <1>2 DEF JobNames
  <2>2. toEnqueue = {} /\ (\A k \in JobNames : jobs[k].state = "none")
          => toEnqueue' = {} /\ \A k \in JobNames : jobs'[k].state = "none"
    BY <1>1, <1>2
  <2> QED BY <1>1, <2>1, <2>2 DEF Base, SInv, UnissuedInv, Outside
<1>5. PrepareOwed' => PrepareOwed \/ issued = {}
  BY <1>1, <1>2 DEF PrepareOwed, Base, SInv, UnissuedInv, JobNames
<1>6. OwedInv'
  <2>1. \A w \in Workers : creds[w] # None \/ worker[w].pc \in BeforeLaunch => issued # {}
    BY ConstantsOK DEF Base, IInv, KeysInv, KeyHeld
  <2>2. \A w \in Workers : Executes(w, "prepare")' = Executes(w, "prepare")
    BY <1>1 DEF Outside, Executes
  <2> QED BY <1>1, <1>5, <2>1, <2>2 DEF Base, SInv, OwedInv, Outside
<1>7. LaunchInv'
  BY <1>1, <1>5 DEF Base, SInv, LaunchInv, Outside, Journaled, IInv, KeysInv
<1> QED BY <1>1, <1>3, <1>4, <1>6, <1>7 DEF SInv

\* The script of a key that is running sends its next transaction.
LEMMA SendEffect ==
  ASSUME TypeOK, NEW c \in Creds, SendRawTransaction(c)
  PROVE  \E i \in 1 .. MaxTx :
           /\ <<c, i>> \in Own \ Journaled /\ Journaled' = Journaled \cup {<<c, i>>}
           /\ c \in running
           /\ UNCHANGED <<dbVars, jobs, apiVars, workerVars, issued, running, launched, crashes>>
<1>1. PICK i \in 1 .. MaxTx, fate \in Fates \ {"absent"} :
        /\ \A k \in 1 .. MaxTx : k < i <=> net[<<c, k>>] # "absent"
        /\ net' = [net EXCEPT ![<<c, i>>] = fate]
  BY DEF SendRawTransaction
<1>2. <<c, i>> \in Own /\ Own \subseteq Tx /\ net \in [Tx -> Fates]
  BY DEF Own, Tx, TypeOK
<1>3. i \in Nat /\ ~ (i < i)
  BY ConstantsOK
<1>4. net[<<c, i>>] = "absent"
  BY <1>1, <1>3
<1>5. \A t \in Own : net'[t] # "absent" <=> net[t] # "absent" \/ t = <<c, i>>
  BY <1>1, <1>2
<1>6. <<c, i>> \in Own \ Journaled /\ Journaled' = Journaled \cup {<<c, i>>}
  BY <1>2, <1>4, <1>5 DEF Journaled
<1> QED BY <1>6 DEF SendRawTransaction

LEMMA SendKeepsS ==
  ASSUME Base, NEW c \in Creds, SendRawTransaction(c)
  PROVE  SInv'
<1>1. PICK i \in 1 .. MaxTx :
        /\ Journaled' = Journaled \cup {<<c, i>>} /\ c \in running
        /\ UNCHANGED <<dbVars, jobs, apiVars, workerVars, issued, running, launched, crashes>>
  BY SendEffect DEF Base, IInv
<1> USE DEF dbVars, apiVars, workerVars
<1>2. LockInv' /\ UnissuedInv' /\ DeployerInv' /\ VerdictInv' /\ OwedInv'
  BY <1>1 DEF Base, SInv, LockInv, UnissuedInv, DeployerInv, VerdictInv, Recorded, OwedInv,
              PrepareOwed, Executes
<1>3. LaunchInv'
  BY <1>1 DEF Base, SInv, LaunchInv, PrepareOwed
<1>4. AbortInv'
  <2> SUFFICES ASSUME NEW w \in Workers
               PROVE  /\ worker[w].pc = "recording" /\ worker[w].seen = "ERROR" =>
                           creds[w] \notin running /\ JournalOf(creds[w])' \subseteq Recorded \cup worker[w].left
                      /\ worker[w].pc \in ScriptTry => creds[w] \in launched
                      /\ worker[w].pc # "aborting"
    BY <1>1 DEF AbortInv, Recorded
  <2>1. creds[w] # c => JournalOf(creds[w])' = JournalOf(creds[w])
    BY <1>1 DEF JournalOf
  <2> QED BY <1>1, <2>1 DEF Base, SInv, AbortInv
<1> QED BY <1>2, <1>3, <1>4 DEF SInv

LEMMA ReapKeepsS ==
  ASSUME Base, ValidationReaps \/ UNCHANGED vars
  PROVE  SInv'
<1>1. UNCHANGED <<dbVars, jobs, apiVars, workerVars, issued, net, launched>> /\ running' \subseteq running
  BY DEF ValidationReaps, vars, worldVars
<1>2. Outside
  BY <1>1 DEF Outside, dbVars, workerVars
<1>3. DeployerInv' /\ AbortInv' /\ VerdictInv'
  BY <1>1, <1>2, OutsideKeeps
<1>4. LockInv' /\ UnissuedInv' /\ OwedInv' /\ LaunchInv'
  BY <1>1 DEF Base, SInv, LockInv, UnissuedInv, OwedInv, LaunchInv, PrepareOwed, Executes, Journaled,
              dbVars, apiVars, workerVars
<1> QED BY <1>3, <1>4 DEF SInv

-----------------------------------------------------------------------------
(* The theorems.                                                           *)

LEMMA InitS == Init => SInv
<1> SUFFICES ASSUME Init PROVE SInv
  OBVIOUS
<1> USE DEF Init, Idle, NewJob
<1>1. LockInv /\ UnissuedInv /\ OwedInv
  BY DEF LockInv, UnissuedInv, OwedInv, Preparing, PrepareTry, BeforeLaunch, PrepareOwed, JobNames, Executes
<1>2. Journaled = {}
  BY DEF Journaled, Tx
<1>3. LaunchInv /\ DeployerInv /\ AbortInv /\ VerdictInv
  BY <1>2 DEF LaunchInv, DeployerInv, AbortInv, VerdictInv, ScriptTry
<1> QED BY <1>1, <1>3 DEF SInv

LEMMA StagingStep == Base /\ [Next]_vars => SInv'
<1> SUFFICES ASSUME Base, [Next]_vars PROVE SInv'
  OBVIOUS
<1>1. ASSUME NEW w \in Workers, WorkerStep(w) PROVE SInv'
  <2>1. CASE PrepareStep(w)
    BY <2>1, StartsKeepS, PrepareMoves, IssueKeepsS DEF PrepareStep
  <2>2. CASE BroadcastStep(w)
    BY <2>2, StartsKeepS, BroadcastMoves, LaunchKeepsS, RecordingKeepsS DEF BroadcastStep
  <2>3. CASE ReconcileStep(w)
    BY <2>3, StartsKeepS, ReconcileMoves, RecordingKeepsS DEF ReconcileStep
  <2>4. CASE EndStep(w)
    BY <2>4, EndMoves, SettlesKeepS, KeyGone DEF EndStep
  <2> QED BY <1>1, <2>1, <2>2, <2>3, <2>4 DEF WorkerStep
<1>2. ASSUME NEW w \in Workers, DatabaseLost(w) \/ Crash(w) PROVE SInv'
  BY <1>2, EndMoves, KeyGone
<1>3. ASSUME NEW c \in Creds, SendRawTransaction(c) PROVE SInv'
  BY <1>3, SendKeepsS
<1>4. ASSUME NEW j \in JobNames, QueueStep(j) PROVE SInv'
  BY <1>4, QueueKeepsS
<1>5. CASE ApiStep \/ ValidationReaps \/ UNCHANGED vars
  BY <1>5, ApiKeepsS, ReapKeepsS
<1> QED BY <1>1, <1>2, <1>3, <1>4, <1>5 DEF Next

LEMMA StagingInvariance == ASSUME Staging PROVE Spec => []SInv
<1>1. Init => SInv
  BY InitS
<1>2. IInv /\ SInv /\ [Next]_vars => SInv'
  BY StagingStep DEF Base
<1> QED BY <1>1, <1>2, Invariance, PTL DEF Spec

\* Once a transaction was handed to the network the row never again shows a
\* status from before the broadcast, whatever crashes, redeliveries, cancel
\* requests and refused calls do, so no handler can start over.
THEOREM Irreversible == ASSUME Staging PROVE Spec => []BoundaryIsIrreversible
<1>1. SInv => BoundaryIsIrreversible
  BY DEF SInv, LaunchInv, BoundaryIsIrreversible
<1> QED BY <1>1, StagingInvariance, PTL

\* While a script may be sending, the row names the key that it sends with.
THEOREM DeployerKnown == ASSUME Staging PROVE Spec => []DeployerIsTheKeyInUse
<1>1. IInv /\ SInv => DeployerIsTheKeyInUse
  BY ConstantsOK DEF IInv, KeysInv, KeyHeld, BeforeLaunch, SInv, DeployerInv, DeployerIsTheKeyInUse
<1> QED BY <1>1, StagingInvariance, Invariance, PTL

\* Who writes a verdict.
LEMMA VerdictWrites ==
  ASSUME [Next]_vars, status' # status, status' \in {"FAILED", "COMPLETED"}
  PROVE  \E w \in Workers :
           /\ \/ At(w, "toCompleted") /\ status' = "COMPLETED"
              \/ At(w, "toFailed") /\ status' = "FAILED"
              \/ (At(w, "failing") \/ At(w, "aborting")) /\ status' = "FAILED"
           /\ UNCHANGED <<txRows, net>>
<1> USE DEF Write, Continue, Step, dbVars, workerVars, worldVars
<1>1. ~ ApiStep /\ ~ ValidationReaps /\ ~ UNCHANGED vars
  BY DEF ApiStep, RequestPrepare, RequestConfirm, RequestReconcile, RequestCancel, WriteCancelled,
         ValidationReaps, vars
<1>2. \A j \in JobNames : ~ QueueStep(j)
  BY DEF QueueStep, Enqueue, DropEnqueue, StalledCheck, Evict
<1>3. \A c \in Creds : ~ SendRawTransaction(c)
  BY DEF SendRawTransaction
<1>4. ASSUME NEW w \in Workers PROVE ~ PrepareStep(w)
  BY DEF PrepareStep, StartPrepare, MarkChecking, CheckEligibility, MarkPreparing, Materialize,
         IssueCredential, MarkSimulating, Simulate, MarkPrepared, CatchPrepare
<1>5. ASSUME NEW w \in Workers PROVE ~ BroadcastStep(w)
  BY DEF BroadcastStep, StartBroadcast, MarkFunding, Fund, CatchBeforeBroadcast, MarkBroadcasting,
         ScriptReturns, RecordTransaction, LoadArtifacts, ScriptOutcome, MarkSubmitted
<1>6. ASSUME NEW w \in Workers PROVE ~ DatabaseLost(w) /\ ~ Crash(w)
  BY DEF DatabaseLost, Crash
<1>7. ASSUME NEW w \in Workers, EndStep(w) PROVE Fail(w)
  BY <1>7 DEF EndStep, LastWriteAnswered, Finally, Return, Throw
<1>8. ASSUME NEW w \in Workers, ReconcileStep(w) PROVE WriteVerdict(w)
  BY <1>8 DEF ReconcileStep, StartReconcile, Reconcile, MarkReconciliation, ListTransactions,
         LookUpReceipt, ReceiptsDone, MarkUnknown, MarkConfirming, ReadAfterConfirm, MarkVerifying,
         PostDeployChecks, CatchAfterBroadcast, Caught
<1>9. PICK w \in Workers : Fail(w) \/ WriteVerdict(w)
  BY <1>1, <1>2, <1>3, <1>4, <1>5, <1>6, <1>7, <1>8 DEF Next, WorkerStep
<1> QED BY <1>9 DEF Fail, WriteVerdict

\* A run that sent something is marked FAILED by the post-deploy checks only.
THEOREM FailedByChecks == ASSUME Staging PROVE Spec => SentIsNotSimplyFailed
<1> DEFINE Simply == status' = "FAILED" /\ status # "FAILED" /\ Journaled # {}
                       => \E w \in Workers : At(w, "toFailed")
<1>1. SInv /\ [Next]_vars => [Simply]_vars
  <2> SUFFICES ASSUME SInv, [Next]_vars, status' = "FAILED", status # "FAILED", Journaled # {}
               PROVE  \E w \in Workers : At(w, "toFailed")
    OBVIOUS
  <2>1. PICK w \in Workers : At(w, "toFailed") \/ At(w, "failing") \/ At(w, "aborting")
    BY VerdictWrites
  <2>2. ~ At(w, "aborting")
    BY DEF SInv, AbortInv, At
  <2>3. ~ At(w, "failing")
    BY DEF SInv, LaunchInv, At
  <2> QED BY <2>1, <2>2, <2>3
<1>2. Spec => [][Simply]_vars
  BY <1>1, StagingInvariance, PTL DEF Spec
<1> QED BY <1>2 DEF SentIsNotSimplyFailed

\* A run that is marked COMPLETED recorded transactions, and all of them were
\* mined and succeeded.
THEOREM CompletedIsMined == ASSUME Staging PROVE Spec => CompletedMeansMined
<1> DEFINE Mined == status' = "COMPLETED" /\ status # "COMPLETED"
                      => Recorded # {} /\ \A t \in Recorded : net[t] = "good"
<1>1. SInv /\ RowsReflectNetwork /\ [Next]_vars => [Mined]_vars
  <2> SUFFICES ASSUME SInv, RowsReflectNetwork, [Next]_vars,
                      status' = "COMPLETED", status # "COMPLETED"
               PROVE  Recorded # {} /\ \A t \in Recorded : net[t] = "good"
    OBVIOUS
  <2>1. PICK w \in Workers : At(w, "toCompleted")
    BY VerdictWrites
  <2>2. Recorded # {} /\ \A t \in Recorded : txRows[t] = "CONFIRMED"
    BY <2>1 DEF SInv, VerdictInv, At
  <2> QED BY <2>2 DEF RowsReflectNetwork
<1>2. Spec => [][Mined]_vars
  BY <1>1, StagingInvariance, RowsAreTrue, PTL DEF Spec
<1> QED BY <1>2 DEF CompletedMeansMined

-----------------------------------------------------------------------------
(* The refinement: what a step does to the three variables of BroadcastOnce. *)

promised == <<confirmed, launched, Journaled>>

LEMMA PromiseSteps ==
  ASSUME [Next]_vars
  PROVE  \/ UNCHANGED <<confirmed, launched, net>>
         \/ RequestConfirm
         \/ \E w \in Workers : MarkBroadcasting(w)
         \/ \E c \in Creds : SendRawTransaction(c)
<1> USE DEF Write, Continue, Step, apiVars, workerVars, worldVars
<1>1. CASE ApiStep
  BY <1>1 DEF ApiStep, RequestPrepare, RequestReconcile, RequestCancel, WriteCancelled
<1>2. CASE ValidationReaps \/ UNCHANGED vars \/ \E j \in JobNames : QueueStep(j)
  BY <1>2 DEF ValidationReaps, vars, QueueStep, Enqueue, DropEnqueue, StalledCheck, Evict
<1>3. ASSUME NEW w \in Workers, PrepareStep(w) PROVE UNCHANGED <<confirmed, launched, net>>
  BY <1>3 DEF PrepareStep, StartPrepare, MarkChecking, CheckEligibility, MarkPreparing, Materialize,
         IssueCredential, MarkSimulating, Simulate, MarkPrepared, CatchPrepare
<1>4. ASSUME NEW w \in Workers, BroadcastStep(w), ~ MarkBroadcasting(w)
      PROVE  UNCHANGED <<confirmed, launched, net>>
  BY <1>4 DEF BroadcastStep, StartBroadcast, MarkFunding, Fund, CatchBeforeBroadcast,
         ScriptReturns, RecordTransaction, LoadArtifacts, ScriptOutcome, MarkSubmitted
<1>5. ASSUME NEW w \in Workers, ReconcileStep(w) PROVE UNCHANGED <<confirmed, launched, net>>
  BY <1>5 DEF ReconcileStep, StartReconcile, Reconcile, MarkReconciliation, ListTransactions,
         LookUpReceipt, ReceiptsDone, MarkUnknown, MarkConfirming, ReadAfterConfirm, MarkVerifying,
         PostDeployChecks, WriteVerdict, CatchAfterBroadcast, Caught
<1>6. ASSUME NEW w \in Workers, EndStep(w) \/ DatabaseLost(w) \/ Crash(w)
      PROVE  UNCHANGED <<confirmed, launched, net>>
  BY <1>6 DEF EndStep, LastWriteAnswered, Fail, Finally, Return, Throw, DatabaseLost, Crash
<1> QED BY <1>1, <1>2, <1>3, <1>4, <1>5, <1>6 DEF Next, WorkerStep

LEMMA PromiseInit == Init => Once!Init
BY DEF Init, Once!Init, Journaled, Tx

LEMMA PromiseStep == Base /\ [Next]_vars => [Once!Next]_promised
<1> SUFFICES ASSUME Base, [Next]_vars PROVE [Once!Next]_promised
  OBVIOUS
<1>1. CASE UNCHANGED <<confirmed, launched, net>>
  BY <1>1 DEF promised, Journaled
<1>2. CASE RequestConfirm
  <2>1. confirmed' = TRUE /\ UNCHANGED <<launched, Journaled>>
    BY <1>2 DEF RequestConfirm, workerVars, worldVars, Journaled
  <2> QED BY <2>1 DEF Once!Next, Once!Confirm
<1>3. ASSUME NEW w \in Workers, MarkBroadcasting(w) PROVE Once!Start
  <2>1. worker[w].pc = "toBroadcasting" /\ launched' = launched \cup {creds[w]}
        /\ confirmed' = confirmed /\ Journaled' = Journaled
    BY <1>3 DEF MarkBroadcasting, At, Write, apiVars, Journaled
  <2>2. launched = {} /\ creds[w] \in Creds /\ confirmed
    BY <2>1, NotLaunched DEF BeforeLaunch, Base, IInv, KeysInv, KeyHeld, ConfirmInv
  <2>3. Journaled = {}
    BY <2>2 DEF Base, SInv, LaunchInv
  <2> QED BY <2>1, <2>2, <2>3 DEF Once!Start
<1>4. ASSUME NEW c \in Creds, SendRawTransaction(c) PROVE Once!Send
  <2>1. PICK i \in 1 .. MaxTx :
           /\ <<c, i>> \in Own \ Journaled /\ Journaled' = Journaled \cup {<<c, i>>}
           /\ c \in running /\ confirmed' = confirmed /\ launched' = launched
    BY <1>4, SendEffect DEF Base, IInv, apiVars
  <2>2. c \in launched
    BY <2>1 DEF Base, SInv, LaunchInv
  <2> QED BY <2>1, <2>2 DEF Once!Send
<1> QED BY <1>1, <1>2, <1>3, <1>4, PromiseSteps DEF Once!Next

\* A run is one confirmed broadcast: every behaviour of the handlers, the
\* queue and the scripts is one of BroadcastOnce.
THEOREM OneBroadcast == ASSUME Staging PROVE Spec => ImplementsBroadcastOnce
<1>1. IInv /\ SInv /\ [Next]_vars => [Once!Next]_promised
  BY PromiseStep DEF Base
<1>2. Spec => Once!Init /\ [][Once!Next]_promised
  BY <1>1, PromiseInit, StagingInvariance, Invariance, PTL DEF Spec
<1> QED BY <1>2 DEF ImplementsBroadcastOnce, Once!Spec, promised
=============================================================================
