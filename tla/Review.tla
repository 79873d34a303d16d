------------------------------- MODULE Review -------------------------------
(***************************************************************************)
(* Compatibility runs and migration plans: made by the API handler that    *)
(* asks for them, in one request, and kept for good under a unique key.    *)
(*                                                                         *)
(* compatibility-service.ts and plan-service.ts follow one protocol on two *)
(* tables: find the row, create it, compute, and write the result in a     *)
(* transaction of several statements, whose isolation is PostgreSQL's      *)
(* default, READ COMMITTED: a statement sees what was committed before it  *)
(* and waits for an open transaction that wrote the same row or key.  What *)
(* is computed are child rows: findings and categories of a run, actions   *)
(* of a plan.  Those of one evaluation are a batch, known by the order of  *)
(* its commit; a batch of actions tells the findings it was made from.     *)
(***************************************************************************)
EXTENDS Naturals, FiniteSets, Sequences

CONSTANTS
  Clients,        \* requests being handled at a time
  MaxFaults       \* bound on dead processes and failing calls

ASSUME ReviewConstants == IsFiniteSet(Clients) /\ MaxFaults \in Nat

VARIABLES
  row,            \* the status of the run and of its plan
  batches,        \* the child rows that are committed
  score,          \* the evaluation that the score and the counts of the run are from
  torn,           \* whether that one was committed over another, between its two DELETEs
  tx,             \* what a client's open transaction read, deleted and inserted
  client,
  commits,        \* batches committed so far
  faults, lost

vars == <<row, batches, score, torn, tx, client, commits, faults, lost>>

Tables   == {"run", "plan"}
Children == {"findings", "categories", "actions"}
ChildrenOf(t) == IF t = "run" THEN {"findings", "categories"} ELSE {"actions"}

Statuses == {"ABSENT", "QUEUED", "EVALUATING", "COMPLETED", "FAILED"}

ALLOWED_COMPATIBILITY_TRANSITIONS ==
  [s \in Statuses |-> CASE s = "QUEUED"     -> {"EVALUATING", "FAILED"}
                        [] s = "EVALUATING" -> {"COMPLETED", "FAILED"}
                        [] s = "FAILED"     -> {"QUEUED"}
                        [] OTHER            -> {}]

\* PLANNING is EVALUATING here.
ALLOWED_MIGRATION_PLAN_TRANSITIONS ==
  [s \in Statuses |-> CASE s = "QUEUED"     -> {"EVALUATING", "FAILED"}
                        [] s = "EVALUATING" -> {"COMPLETED", "FAILED"}
                        [] s = "FAILED"     -> {"QUEUED"}
                        [] OTHER            -> {}]

Allowed(t) == IF t = "run" THEN ALLOWED_COMPATIBILITY_TRANSITIONS
              ELSE ALLOWED_MIGRATION_PLAN_TRANSITIONS

NoReport == [findings |-> {}, torn |-> FALSE]

NoTx == [seen |-> "ABSENT", child |-> "findings", snapshot |-> {},
         deleted |-> [k \in Children |-> {}], inserted |-> FALSE, torn |-> FALSE]
Idle == [table |-> "run", pc |-> "idle", basis |-> NoReport]

Init ==
  /\ row = [t \in Tables |-> "ABSENT"]
  /\ batches = [k \in Children |-> {}]
  /\ score = 0 /\ torn = FALSE
  /\ tx = [c \in Clients |-> NoTx]
  /\ client = [c \in Clients |-> Idle]
  /\ commits = 0 /\ faults = 0 /\ lost = FALSE

-----------------------------------------------------------------------------
At(c, pc)   == client[c].pc = pc
Goto(c, pc) == client' = [client EXCEPT ![c].pc = pc]
Answer(c)   == client' = [client EXCEPT ![c] = Idle]
NoFault     == UNCHANGED <<faults, lost>>
Fault       == faults < MaxFaults /\ faults' = faults + 1 /\ lost' = TRUE

Table(c) == client[c].table
Stored   == <<batches, score, torn>>

InTransaction == {"delete", "lock", "insert", "commit", "mark"}

\* The transactions of the other requests for the same row.
Others(c) == {d \in Clients \ {c} : Table(d) = Table(c) /\ client[d].pc \in InTransaction}

Rollback(c) == tx' = [tx EXCEPT ![c] = NoTx]

-----------------------------------------------------------------------------
(* createForProject and createForCompatibilityRun                          *)

AskRun(c) ==
  /\ client[c] = Idle
  /\ client' = [client EXCEPT ![c] = [table |-> "run", pc |-> "find", basis |-> NoReport]]
  /\ UNCHANGED <<row, Stored, tx, commits>> /\ NoFault

\* Mutant of AskPlan: the status of the run is not checked.
AskPlanEarly(c) ==
  /\ client[c] = Idle
  /\ client' = [client EXCEPT ![c] = [table |-> "plan", pc |-> "read", basis |-> NoReport]]
  /\ UNCHANGED <<row, Stored, tx, commits>> /\ NoFault

\* A plan is made of a run that is completed when the request reads its row ...
AskPlan(c) ==
  /\ client[c] = Idle
  /\ row["run"] = "COMPLETED"
  /\ client' = [client EXCEPT ![c] = [table |-> "plan", pc |-> "read", basis |-> NoReport]]
  /\ UNCHANGED <<row, Stored, tx, commits>> /\ NoFault

\* ... from the findings that another statement reads then.
ReadFindings(c) ==
  /\ At(c, "read")
  /\ client' = [client EXCEPT ![c].pc = "find",
                  ![c].basis = [findings |-> {b.id : b \in batches["findings"]}, torn |-> torn]]
  /\ UNCHANGED <<row, Stored, tx, commits>> /\ NoFault

\* A completed row is the answer; any other is taken up, one in the hands of
\* another request too.
Find(c) ==
  /\ At(c, "find")
  /\ CASE row[Table(c)] = "COMPLETED" -> Answer(c)
       [] row[Table(c)] = "ABSENT"    -> Goto(c, "create")
       [] OTHER                       -> Goto(c, "begin")
  /\ UNCHANGED <<row, Stored, tx, commits>> /\ NoFault

\* A row is inserted under its unique key; the request that loses goes on with
\* the other's row.
CreateRow(c) ==
  /\ At(c, "create")
  /\ IF row[Table(c)] = "ABSENT"
     THEN row' = [row EXCEPT ![Table(c)] = "QUEUED"] /\ Goto(c, "begin")
     ELSE UNCHANGED row /\ Goto(c, "find")
  /\ UNCHANGED <<Stored, tx, commits>> /\ NoFault

createRunQueued(c)  == Table(c) = "run" /\ CreateRow(c)
createPlanQueued(c) == Table(c) = "plan" /\ CreateRow(c)

-----------------------------------------------------------------------------
(* persistCompleted                                                        *)

Opened(c) == [NoTx EXCEPT !.seen = row[Table(c)],
                          !.child = IF Table(c) = "run" THEN "findings" ELSE "actions"]

\* Mutant of Begin: a row that was completed meanwhile is written again.
BeginAgain(c) ==
  /\ At(c, "begin")
  /\ tx' = [tx EXCEPT ![c] = Opened(c)] /\ Goto(c, "delete")
  /\ UNCHANGED <<row, Stored, commits>> /\ NoFault

\* The row is read without a lock.
Begin(c) ==
  /\ At(c, "begin")
  /\ IF row[Table(c)] = "COMPLETED"
     THEN Answer(c) /\ UNCHANGED tx
     ELSE /\ tx' = [tx EXCEPT ![c] = Opened(c)]
          /\ Goto(c, "delete")
  /\ UNCHANGED <<row, Stored, commits>> /\ NoFault

\* A statement begins with a snapshot: what is committed later is not seen by it.  The
\* findings of a run and its categories are deleted by one statement each.
Delete(c) ==
  /\ At(c, "delete")
  /\ tx' = [tx EXCEPT ![c].snapshot = batches[tx[c].child]] /\ Goto(c, "lock")
  /\ UNCHANGED <<row, Stored, commits>> /\ NoFault

\* It ends when no other transaction is deleting these rows; those that another one did
\* delete are left out.
Lock(c) ==
  LET k == tx[c].child
  IN /\ At(c, "lock")
     /\ \A d \in Others(c) : tx[d].deleted[k] \cap tx[c].snapshot = {}
     /\ tx' = [tx EXCEPT ![c].deleted[k] = tx[c].snapshot \cap batches[k],
                         ![c].snapshot = {},
                         ![c].child = IF k = "findings" THEN "categories" ELSE k]
     /\ Goto(c, IF k = "findings" THEN "delete" ELSE "insert")
     /\ UNCHANGED <<row, Stored, commits>> /\ NoFault

\* The findings are chosen, and the categories not yet.
BetweenDeletes(c) ==
  Table(c) = "run" /\ \/ At(c, "lock") /\ tx[c].child = "findings"
                      \/ At(c, "delete") /\ tx[c].child = "categories"

\* Actions are under no key ...
InsertUnkeyed(c) ==
  /\ At(c, "insert")
  /\ tx' = [tx EXCEPT ![c].inserted = TRUE] /\ Goto(c, "commit")
  /\ UNCHANGED <<row, Stored, commits>> /\ NoFault

insertActions(c) == Table(c) = "plan" /\ InsertUnkeyed(c)

\* ... and neither are findings, but a category of a run is there only once: an open
\* transaction that inserted or deleted it is waited for, and one that is committed is a
\* violation.

\* Mutant of insertFindings: categories are under no key.
InsertKeyless(c) == Table(c) = "run" /\ InsertUnkeyed(c)

insertFindings(c) ==
  LET present == batches["categories"] \ tx[c].deleted["categories"]
  IN /\ Table(c) = "run" /\ At(c, "insert")
     /\ \A d \in Others(c) : ~ tx[d].inserted /\ tx[d].deleted["categories"] \cap present = {}
     /\ IF present = {}
        THEN tx' = [tx EXCEPT ![c].inserted = TRUE] /\ Goto(c, "commit")
        ELSE Rollback(c) /\ Goto(c, "fail")
     /\ UNCHANGED <<row, Stored, commits>> /\ NoFault

\* The statuses the transaction goes through, from the one it read.
Path(seen) == CASE seen = "QUEUED" -> <<"QUEUED", "EVALUATING", "COMPLETED">>
                [] seen = "FAILED" -> <<"FAILED", "QUEUED", "EVALUATING", "COMPLETED">>

\* Mutant of Commit: the old rows are deleted after the new ones are inserted.
CommitEmpty(c) ==
  /\ At(c, "commit")
  /\ row' = [row EXCEPT ![Table(c)] = "COMPLETED"]
  /\ batches' = [k \in Children |-> IF k \in ChildrenOf(Table(c)) THEN {} ELSE batches[k]]
  /\ commits' = commits + 1
  /\ UNCHANGED <<score, torn>>
  /\ Rollback(c) /\ Answer(c) /\ NoFault

\* The rows of the result take the place of those that were deleted, and the run's row
\* says what they come to.
Commit(c) ==
  LET t == Table(c)
      new == [id |-> commits + 1, basis |-> client[c].basis]
      path == Path(tx[c].seen)
  IN
  /\ At(c, "commit")
  /\ \A i \in 2 .. Len(path) : path[i] \in Allowed(t)[path[i - 1]]
  /\ row' = [row EXCEPT ![t] = "COMPLETED"]
  /\ batches' = [k \in Children |-> IF k \in ChildrenOf(t)
                                    THEN (batches[k] \ tx[c].deleted[k]) \cup {new}
                                    ELSE batches[k]]
  /\ commits' = commits + 1
  /\ IF t = "run" THEN score' = commits + 1 /\ torn' = tx[c].torn ELSE UNCHANGED <<score, torn>>
  /\ tx' = [d \in Clients |->
              IF d = c THEN NoTx ELSE [tx[d] EXCEPT !.torn = @ \/ (t = "run" /\ BetweenDeletes(d))]]
  /\ \/ Answer(c) /\ NoFault
     \/ Goto(c, "fail") /\ Fault

-----------------------------------------------------------------------------
(* markFailed                                                              *)

\* Mutant of Fail: a completed row can fail.
FailAny(c) ==
  /\ At(c, "fail")
  /\ tx' = [tx EXCEPT ![c].seen = row[Table(c)]] /\ Goto(c, "mark")
  /\ UNCHANGED <<row, Stored, commits>> /\ NoFault

\* The row is read, and refused when it cannot fail ...
Fail(c) ==
  /\ At(c, "fail")
  /\ IF row[Table(c)] # "FAILED" /\ "FAILED" \notin Allowed(Table(c))[row[Table(c)]]
     THEN Answer(c) /\ UNCHANGED tx
     ELSE tx' = [tx EXCEPT ![c].seen = row[Table(c)]] /\ Goto(c, "mark")
  /\ UNCHANGED <<row, Stored, commits>> /\ NoFault

\* ... and then written, whatever it is by now.
Mark(c) ==
  /\ At(c, "mark")
  /\ row' = [row EXCEPT ![Table(c)] = "FAILED"]
  /\ Rollback(c) /\ Answer(c)
  /\ UNCHANGED <<Stored, commits>> /\ NoFault

markRunFailed(c)  == Table(c) = "run" /\ (Fail(c) \/ Mark(c))
markPlanFailed(c) == Table(c) = "plan" /\ (Fail(c) \/ Mark(c))

-----------------------------------------------------------------------------
(* Faults                                                                  *)

\* A call fails: within the try block the row is to be failed.
Refused(c) ==
  /\ client[c].pc # "idle"
  /\ Rollback(c)
  /\ IF client[c].pc \in {"begin", "delete", "lock", "insert", "commit"} THEN Goto(c, "fail")
     ELSE Answer(c)
  /\ UNCHANGED <<row, Stored, commits>> /\ Fault

\* The process dies; its transaction is rolled back.
Crash(c) ==
  /\ client[c].pc # "idle"
  /\ Rollback(c) /\ Answer(c)
  /\ UNCHANGED <<row, Stored, commits>> /\ Fault

persistRun(c)  == Table(c) = "run" /\ (Begin(c) \/ Delete(c) \/ Lock(c) \/ insertFindings(c) \/ Commit(c))
persistPlan(c) == Table(c) = "plan" /\ (Begin(c) \/ Delete(c) \/ Lock(c) \/ insertActions(c) \/ Commit(c))

Handle(c) ==
  \/ ReadFindings(c) \/ Find(c) \/ createRunQueued(c) \/ createPlanQueued(c) \/ persistRun(c) \/ persistPlan(c)
  \/ markRunFailed(c) \/ markPlanFailed(c)

Next == \E c \in Clients :
          AskRun(c) \/ AskPlan(c) \/ Handle(c) \/ Refused(c) \/ Crash(c)

Spec == Init /\ [][Next]_vars

\* A request that is being handled goes on.
FairSpec == Spec /\ \A c \in Clients : WF_vars(Handle(c))

=============================================================================
