---------------------------- MODULE ReviewProofs -----------------------------
(***************************************************************************)
(* Proofs about compatibility runs and migration plans, for every set of   *)
(* clients and every number of faults.  The inductive invariant is IInv:   *)
(* ScoreInv says what a run has, KeyOf what the key of its categories is   *)
(* good for, and TornOf what a transaction that no commit came between has *)
(* seen.                                                                   *)
(***************************************************************************)
EXTENDS ReviewProperties, FiniteSetTheorems, TLAPS

Report  == [findings : SUBSET Nat, torn : BOOLEAN]
Batches == [id : Nat, basis : Report]
Request == [table : Tables, pc : Pcs, basis : Report]
Open    == [seen : Statuses, child : Children, snapshot : SUBSET Batches,
            deleted : [Children -> SUBSET Batches], inserted : BOOLEAN, torn : BOOLEAN]

Shape ==
  /\ row \in [Tables -> Statuses]
  /\ batches \in [Children -> SUBSET Batches]
  /\ score \in Nat /\ torn \in BOOLEAN /\ commits \in Nat
  /\ tx \in [Clients -> Open]
  /\ client \in [Clients -> Request]

IsSingle(S) == \E b : S = {b}

\* One batch of categories, which is the score's; its findings; and only those.
ScoreInv ==
  /\ score = 0 => batches["findings"] = {} /\ batches["categories"] = {}
  /\ score # 0 => \E b \in Batches : /\ b.id = score
                                     /\ batches["categories"] = {b}
                                     /\ b \in batches["findings"]
                                     /\ torn \/ batches["findings"] = {b}

\* What a plan may be made from.
Whole(r) == r.findings # {} /\ (r.torn \/ IsSingle(r.findings))

PlanInv == \A b \in batches["actions"] : Whole(b.basis)

\* A request that is past creating its row has one.
RowOf(c) == client[c].pc \notin {"idle", "read", "find", "create"} => row[Table(c)] # "ABSENT"

Committing(c) == Table(c) = "run" /\ client[c].pc = "commit"

\* Whoever has inserted categories deletes those that are there, and is alone in it.
KeyOf(c) == Committing(c) => /\ tx[c].inserted
                             /\ batches["categories"] \subseteq tx[c].deleted["categories"]

OneCommits == \A c, d \in Clients : Committing(c) /\ Committing(d) => c = d

\* A transaction has seen what was committed, and nothing that will be.
Old(S)   == \A b \in S : b.id \in 1 .. commits
SeenOf(c) == Old(tx[c].snapshot) /\ \A k \in Children : Old(tx[c].deleted[k])

\* What the statements of a transaction delete, or are about to.
Chosen(c, k) == IF client[c].pc = "lock" /\ tx[c].child = k THEN tx[c].snapshot
                ELSE tx[c].deleted[k]

\* Both statements are under way or done.
BothChosen(c) ==
  Table(c) = "run" /\ \/ client[c].pc = "lock" /\ tx[c].child = "categories"
                      \/ client[c].pc \in {"insert", "commit"}

\* Without a commit between the two, a transaction that deletes all categories deletes all findings.
TornOf(c) ==
  ~ tx[c].torn =>
    /\ BetweenDeletes(c) => batches["findings"] \subseteq Chosen(c, "findings")
    /\ BothChosen(c) /\ batches["categories"] \subseteq Chosen(c, "categories")
         => batches["findings"] \subseteq Chosen(c, "findings")

\* A request for a plan has found a score, and carries the findings of a report.
BasisOf(c) ==
  /\ Table(c) = "run" => client[c].pc # "read"
  /\ Table(c) = "plan" => IF client[c].pc = "read" THEN score # 0 ELSE Whole(client[c].basis)

TypeOf(c) ==
  /\ client[c].pc \notin InTransaction => tx[c] = NoTx
  /\ client[c].pc \in {"delete", "lock", "insert", "commit"}
       => /\ tx[c].seen \in {"QUEUED", "FAILED"}
          /\ tx[c].child \in ChildrenOf(Table(c))

Sound(c) == TypeOf(c) /\ RowOf(c) /\ KeyOf(c) /\ SeenOf(c) /\ TornOf(c) /\ BasisOf(c)

Rows ==
  /\ row \in [Tables -> Statuses \ {"EVALUATING"}]
  /\ \A k \in Children : Old(batches[k])
  /\ score <= commits

IInv == /\ Shape /\ Rows /\ RowsHaveResults /\ ScoreInv /\ PlanInv /\ OneCommits
        /\ \A c \in Clients : Sound(c)

USE DEF Tables, Statuses, Pcs, Children

LEMMA SingleCard == \A S : IsSingle(S) => Cardinality(S) = 1
BY FS_Singleton DEF IsSingle

LEMMA Constants == NoTx \in Open /\ Idle \in Request /\ NoReport \in Report
BY DEF NoTx, Idle, NoReport, Open, Request, Report

\* An idle request is sound, whatever the tables hold.
LEMMA IdleSound ==
  ASSUME NEW c \in Clients, client[c] = Idle, tx[c] = NoTx
  PROVE  Sound(c)
BY DEF Sound, TypeOf, RowOf, KeyOf, Committing, SeenOf, Old, TornOf, BetweenDeletes, BothChosen, At,
       BasisOf, Table, Idle, NoTx, InTransaction

LEMMA InitInv == Init => IInv
<1> SUFFICES ASSUME Init PROVE IInv
  OBVIOUS
<1>1. \A c \in Clients : Sound(c)
  BY IdleSound DEF Init
<1>2. Shape
  BY Constants DEF Init, Shape
<1>3. Rows
  BY DEF Init, Rows, Old
<1>4. RowsHaveResults /\ ScoreInv /\ PlanInv /\ OneCommits
  BY DEF Init, RowsHaveResults, ChildrenOf, ScoreInv, PlanInv, OneCommits, Committing, Idle
<1> QED BY <1>1, <1>2, <1>3, <1>4 DEF IInv

-----------------------------------------------------------------------------
(* Steps that write no child rows                                          *)

\* Only the request that takes the step has its record and transaction changed.
Alone(c) ==
  /\ client' \in [Clients -> Request] /\ tx' \in [Clients -> Open]
  /\ \A d \in Clients \ {c} : client'[d] = client[d] /\ tx'[d] = tx[d]

\* What is sound stays so where nothing happens, and rows are not taken back.
LEMMA OthersSound ==
  ASSUME NEW d \in Clients, Sound(d), client'[d] = client[d], tx'[d] = tx[d],
         UNCHANGED <<Stored, commits>>, row[Table(d)] # "ABSENT" => row'[Table(d)] # "ABSENT"
  PROVE  Sound(d)'
BY DEF Sound, TypeOf, RowOf, KeyOf, Committing, SeenOf, Old, TornOf, BetweenDeletes, BothChosen, At,
       BasisOf, Table, Chosen, Stored

\* It is enough to look at the request that takes the step.
LEMMA ReadKept ==
  ASSUME IInv, NEW c \in Clients, Alone(c), UNCHANGED <<row, Stored, commits>>, Sound(c)',
         Committing(c)' => \A d \in Clients \ {c} : ~ Committing(d)
  PROVE  IInv'
<1>1. \A d \in Clients : Sound(d)'
  BY OthersSound DEF IInv, Alone
<1>2. Shape' /\ Rows' /\ RowsHaveResults' /\ ScoreInv' /\ PlanInv'
  BY DEF IInv, Alone, Shape, Rows, RowsHaveResults, ScoreInv, PlanInv, Stored, Old
<1>3. OneCommits'
  BY DEF IInv, Alone, OneCommits, Committing, Table
<1> QED BY <1>1, <1>2, <1>3 DEF IInv

LEMMA Records ==
  ASSUME IInv, NEW c \in Clients
  PROVE  /\ client[c] \in Request /\ tx[c] \in Open /\ Table(c) \in Tables /\ commits \in Nat
         /\ client \in [Clients -> Request] /\ tx \in [Clients -> Open]
         /\ row[Table(c)] \in Statuses \ {"EVALUATING"}
         /\ \A k \in Children : batches[k] \subseteq Batches
         /\ Sound(c)
BY DEF IInv, Shape, Rows, Request, Table

\* The record of a request that moves on.
LEMMA Moved ==
  ASSUME IInv, NEW c \in Clients, NEW p \in Pcs, Goto(c, p)
  PROVE  /\ client' \in [Clients -> Request]
         /\ \A d \in Clients \ {c} : client'[d] = client[d]
         /\ client'[c].pc = p /\ client'[c].basis = client[c].basis
         /\ client'[c].table = client[c].table
BY Records DEF Goto, Request

LEMMA Answered ==
  ASSUME IInv, NEW c \in Clients, Answer(c)
  PROVE  /\ client' \in [Clients -> Request] /\ client'[c] = Idle
         /\ \A d \in Clients \ {c} : client'[d] = client[d]
BY Records, Constants DEF Answer

LEMMA RolledBack ==
  ASSUME IInv, NEW c \in Clients, Rollback(c)
  PROVE  /\ tx' \in [Clients -> Open] /\ tx'[c] = NoTx
         /\ \A d \in Clients \ {c} : tx'[d] = tx[d]
BY Records, Constants DEF Rollback

\* Outside its transaction a request has nothing to be wrong about but its row and its report.
LEMMA OutsideSound ==
  ASSUME NEW c \in Clients, client'[c].pc \notin InTransaction, tx'[c] = NoTx, RowOf(c)', BasisOf(c)'
  PROVE  Sound(c)' /\ ~ Committing(c)'
BY DEF Sound, TypeOf, KeyOf, Committing, SeenOf, Old, TornOf, BetweenDeletes, BothChosen, At, NoTx,
       InTransaction

LEMMA AnsweredSound ==
  ASSUME NEW c \in Clients, client'[c] = Idle, tx'[c] = NoTx
  PROVE  Sound(c)' /\ ~ Committing(c)'
BY OutsideSound DEF RowOf, BasisOf, Table, Idle, InTransaction

\* The transaction of one request is rolled back, or was not open.
Closed(c) == /\ tx' \in [Clients -> Open] /\ tx'[c] = NoTx
             /\ \A d \in Clients \ {c} : tx'[d] = tx[d]

\* The transaction of a request is closed where none is open.
LEMMA NoneOpen ==
  ASSUME IInv, NEW c \in Clients, client[c].pc \notin InTransaction
  PROVE  /\ tx[c] = NoTx
         /\ UNCHANGED tx => Closed(c)
BY Records DEF Sound, TypeOf, Closed

\* A request that is answered.
LEMMA LeftKept ==
  ASSUME IInv, NEW c \in Clients, Answer(c), Closed(c), UNCHANGED <<row, Stored, commits>>
  PROVE  IInv'
BY Answered, AnsweredSound, ReadKept DEF Alone, Closed

\* A request that goes on outside a transaction.
LEMMA OnKept ==
  ASSUME IInv, NEW c \in Clients, NEW p \in {"find", "create", "begin", "fail"}, Goto(c, p), Closed(c),
         client[c].pc # "read", p \in {"begin", "fail"} => row[Table(c)] # "ABSENT",
         UNCHANGED <<row, Stored, commits>>
  PROVE  IInv'
<1>1. /\ client' \in [Clients -> Request] /\ client'[c].pc = p
      /\ \A d \in Clients \ {c} : client'[d] = client[d]
      /\ client'[c].basis = client[c].basis /\ client'[c].table = client[c].table
  BY Moved
<1>2. RowOf(c)'
  BY <1>1 DEF RowOf, Table
<1>3. BasisOf(c)'
  BY <1>1, Records DEF Sound, BasisOf, Table
<1>4. Sound(c)' /\ ~ Committing(c)'
  BY <1>1, <1>2, <1>3, OutsideSound DEF InTransaction, Closed
<1> QED BY <1>1, <1>4, ReadKept DEF Alone, Closed

LEMMA AskKept ==
  ASSUME IInv, NEW c \in Clients, AskRun(c) \/ AskPlan(c) \/ ReadFindings(c)
  PROVE  IInv'
<1>1. UNCHANGED <<row, Stored, tx, commits>>
  BY DEF AskRun, AskPlan, ReadFindings
<1>2. /\ client \in [Clients -> Request] /\ NoReport \in Report
      /\ client[c].pc \in {"idle", "read"} /\ tx[c] = NoTx
  BY Records, Constants DEF AskRun, AskPlan, ReadFindings, Idle, At, Sound, TypeOf, InTransaction
<1>3. CASE AskRun(c)
  <2>1. /\ client' \in [Clients -> Request]
        /\ \A d \in Clients \ {c} : client'[d] = client[d]
        /\ client'[c] = [table |-> "run", pc |-> "find", basis |-> NoReport]
    BY <1>2, <1>3 DEF AskRun, Request
  <2>2. RowOf(c)' /\ BasisOf(c)'
    BY <2>1 DEF RowOf, BasisOf, Table
  <2>3. client'[c].pc \notin InTransaction /\ tx'[c] = NoTx
    BY <1>1, <1>2, <2>1 DEF InTransaction
  <2>4. Sound(c)' /\ ~ Committing(c)'
    BY <2>2, <2>3, OutsideSound
  <2> QED BY <1>1, <2>1, <2>4, Records, ReadKept DEF Alone
<1>4. CASE AskPlan(c)
  <2>1. /\ client' \in [Clients -> Request]
        /\ \A d \in Clients \ {c} : client'[d] = client[d]
        /\ client'[c] = [table |-> "plan", pc |-> "read", basis |-> NoReport]
    BY <1>2, <1>4 DEF AskPlan, Request
  <2>2. score # 0
    BY <1>4 DEF AskPlan, IInv, RowsHaveResults, ChildrenOf, ScoreInv
  <2>3. RowOf(c)' /\ BasisOf(c)'
    BY <1>1, <2>1, <2>2 DEF RowOf, BasisOf, Table, Stored
  <2>4. client'[c].pc \notin InTransaction /\ tx'[c] = NoTx
    BY <1>1, <1>2, <2>1 DEF InTransaction
  <2>5. Sound(c)' /\ ~ Committing(c)'
    BY <2>3, <2>4, OutsideSound
  <2> QED BY <1>1, <2>1, <2>5, Records, ReadKept DEF Alone
<1>5. CASE ReadFindings(c)
  <2> DEFINE read == [findings |-> {b.id : b \in batches["findings"]}, torn |-> torn]
  <2>1. read \in Report
    BY Records DEF IInv, Shape, Batches, Report
  <2>2. /\ client' \in [Clients -> Request]
        /\ \A d \in Clients \ {c} : client'[d] = client[d]
        /\ client'[c].table = client[c].table /\ client'[c].pc = "find" /\ client'[c].basis = read
    BY <1>2, <1>5, <2>1 DEF ReadFindings, Request
  <2>3. client[c].pc = "read" /\ Table(c) \in Tables
    BY <1>5, Records DEF ReadFindings, At
  <2>4. Table(c) = "plan"
    <3>1. Sound(c)
      BY Records
    <3> QED BY <2>3, <3>1 DEF Sound, BasisOf
  <2>5. Whole(read)
    <3>1. score # 0
      BY <2>3, <2>4, Records DEF Sound, BasisOf
    <3>2. PICK b \in Batches : b \in batches["findings"] /\ (torn \/ batches["findings"] = {b})
      BY <3>1 DEF IInv, ScoreInv
    <3>3. b.id \in read.findings /\ (torn \/ read.findings = {b.id})
      BY <3>2
    <3> QED BY <3>3 DEF Whole, IsSingle
  <2> HIDE DEF read
  <2>6. RowOf(c)' /\ BasisOf(c)'
    BY <2>2, <2>4, <2>5 DEF RowOf, BasisOf, Table
  <2>7. client'[c].pc \notin InTransaction /\ tx'[c] = NoTx
    BY <1>1, <1>2, <2>2 DEF InTransaction
  <2>8. Sound(c)' /\ ~ Committing(c)'
    BY <2>6, <2>7, OutsideSound
  <2> QED BY <1>1, <2>2, <2>8, Records, ReadKept DEF Alone
<1> QED BY <1>3, <1>4, <1>5

LEMMA FindKept ==
  ASSUME IInv, NEW c \in Clients, Find(c)
  PROVE  IInv'
<1>1. client[c].pc = "find" /\ UNCHANGED <<row, Stored, tx, commits>>
  BY DEF Find, At
<1>2. Closed(c)
  BY <1>1, NoneOpen DEF InTransaction
<1>3. CASE Answer(c)
  BY <1>1, <1>2, <1>3, LeftKept
<1>4. CASE Goto(c, "create")
  BY <1>1, <1>2, <1>4, OnKept
<1>5. CASE row[Table(c)] # "ABSENT" /\ Goto(c, "begin")
  BY <1>1, <1>2, <1>5, OnKept
<1> QED BY <1>3, <1>4, <1>5 DEF Find

LEMMA BeginKept ==
  ASSUME IInv, NEW c \in Clients, Begin(c)
  PROVE  IInv'
<1>1. client[c].pc = "begin" /\ UNCHANGED <<row, Stored, commits>>
  BY DEF Begin, At
<1>2. CASE Answer(c) /\ UNCHANGED tx
  BY <1>1, <1>2, NoneOpen, LeftKept DEF InTransaction
<1>3. CASE row[Table(c)] # "COMPLETED" /\ tx' = [tx EXCEPT ![c] = Opened(c)] /\ Goto(c, "delete")
  <2>1. row[Table(c)] \in {"QUEUED", "FAILED"}
    BY <1>1, <1>3, Records DEF Sound, RowOf
  <2>2. Opened(c) \in Open
    BY <2>1, Constants DEF Opened, Open
  <2>3. /\ tx' \in [Clients -> Open] /\ tx'[c] = Opened(c)
        /\ \A d \in Clients \ {c} : tx'[d] = tx[d]
    BY <1>3, <2>2, Records
  <2>4. /\ client' \in [Clients -> Request] /\ client'[c].pc = "delete"
        /\ \A d \in Clients \ {c} : client'[d] = client[d]
        /\ client'[c].basis = client[c].basis /\ client'[c].table = client[c].table
    BY <1>3, Moved
  <2>5. /\ tx'[c].seen \in {"QUEUED", "FAILED"} /\ tx'[c].snapshot = {}
        /\ \A k \in Children : tx'[c].deleted[k] = {}
        /\ tx'[c].child = IF Table(c) = "run" THEN "findings" ELSE "actions"
    BY <2>1, <2>3 DEF Opened, NoTx
  <2>6. TypeOf(c)' /\ RowOf(c)' /\ KeyOf(c)' /\ ~ Committing(c)'
    BY <1>1, <2>1, <2>4, <2>5, Records DEF TypeOf, RowOf, KeyOf, Committing, InTransaction, Table, ChildrenOf
  <2>7. SeenOf(c)' /\ TornOf(c)'
    BY <2>4, <2>5 DEF SeenOf, Old, TornOf, BetweenDeletes, BothChosen, At, Table
  <2>8. BasisOf(c)'
    BY <1>1, <2>4, Records DEF Sound, BasisOf, Table
  <2>9. Sound(c)'
    BY <2>6, <2>7, <2>8 DEF Sound
  <2> QED BY <1>1, <2>3, <2>4, <2>6, <2>9, ReadKept DEF Alone
<1> QED BY <1>2, <1>3 DEF Begin

\* A statement takes its snapshot: of all findings, or of all categories.
LEMMA DeleteKept ==
  ASSUME IInv, NEW c \in Clients, Delete(c)
  PROVE  IInv'
<1>1. client[c].pc = "delete" /\ UNCHANGED <<row, Stored, commits>> /\ Goto(c, "lock")
  BY DEF Delete, At
<1>2. Sound(c) /\ tx[c].child \in Children /\ batches[tx[c].child] \in SUBSET Batches
  BY Records DEF Open
<1>3. /\ tx' \in [Clients -> Open]
      /\ tx'[c] = [tx[c] EXCEPT !.snapshot = batches[tx[c].child]]
      /\ \A d \in Clients \ {c} : tx'[d] = tx[d]
  <2>1. tx' = [tx EXCEPT ![c] = [tx[c] EXCEPT !.snapshot = batches[tx[c].child]]]
    BY DEF Delete
  <2>2. [tx[c] EXCEPT !.snapshot = batches[tx[c].child]] \in Open
    BY <1>2, Records DEF Open
  <2> QED BY <2>1, <2>2, Records
<1>4. /\ tx'[c].seen = tx[c].seen /\ tx'[c].child = tx[c].child /\ tx'[c].deleted = tx[c].deleted
      /\ tx'[c].snapshot = batches[tx[c].child] /\ tx'[c].torn = tx[c].torn
  BY <1>3, Records DEF Open
<1>5. /\ client' \in [Clients -> Request] /\ client'[c].pc = "lock"
      /\ \A d \in Clients \ {c} : client'[d] = client[d]
      /\ client'[c].basis = client[c].basis /\ client'[c].table = client[c].table
  BY <1>1, Moved
<1>6. TypeOf(c)' /\ RowOf(c)' /\ KeyOf(c)' /\ BasisOf(c)' /\ ~ Committing(c)'
  BY <1>1, <1>2, <1>4, <1>5 DEF Sound, TypeOf, RowOf, KeyOf, BasisOf, Committing, InTransaction, Table,
     Stored
<1>7. SeenOf(c)'
  BY <1>1, <1>2, <1>4 DEF IInv, Rows, Sound, SeenOf, Old
<1>8. TornOf(c)'
  BY <1>1, <1>2, <1>4, <1>5 DEF Sound, TornOf, BetweenDeletes, BothChosen, Chosen, At, Table, Stored
<1>9. Sound(c)'
  BY <1>6, <1>7, <1>8 DEF Sound
<1> QED BY <1>1, <1>3, <1>5, <1>6, <1>9, ReadKept DEF Alone

\* A statement ends: what another one did not delete meanwhile is what this one deletes.
LEMMA LockKept ==
  ASSUME IInv, NEW c \in Clients, Lock(c)
  PROVE  IInv'
<1> DEFINE k == tx[c].child
           p == IF k = "findings" THEN "delete" ELSE "insert"
           q == IF k = "findings" THEN "categories" ELSE k
           mine == tx[c].snapshot \cap batches[k]
<1>1. client[c].pc = "lock" /\ UNCHANGED <<row, Stored, commits>> /\ Goto(c, p)
  BY DEF Lock, At
<1>2. Sound(c) /\ k \in Children /\ k \in ChildrenOf(Table(c)) /\ mine \in SUBSET Batches
      /\ tx[c].deleted \in [Children -> SUBSET Batches] /\ Table(c) \in Tables
  BY <1>1, Records DEF Open, Sound, TypeOf
<1>3. /\ tx' \in [Clients -> Open]
      /\ tx'[c].seen = tx[c].seen /\ tx'[c].child = q /\ tx'[c].snapshot = {}
      /\ tx'[c].deleted = [tx[c].deleted EXCEPT ![k] = mine] /\ tx'[c].torn = tx[c].torn
      /\ \A d \in Clients \ {c} : tx'[d] = tx[d]
  <2> DEFINE r == [tx[c] EXCEPT !.deleted = [@ EXCEPT ![k] = mine], !.snapshot = {}, !.child = q]
  <2>1. tx' = [tx EXCEPT ![c] = r]
    BY <1>2, Records DEF Lock, Open
  <2>2. r \in Open /\ r.seen = tx[c].seen /\ r.child = q /\ r.snapshot = {} /\ r.torn = tx[c].torn
        /\ r.deleted = [tx[c].deleted EXCEPT ![k] = mine]
    BY <1>2, Records DEF Open
  <2> HIDE DEF r, k, q, mine
  <2> QED BY <2>1, <2>2, Records
<1>4. /\ client' \in [Clients -> Request] /\ client'[c].pc = p
      /\ \A d \in Clients \ {c} : client'[d] = client[d]
      /\ client'[c].basis = client[c].basis /\ client'[c].table = client[c].table
  BY <1>1, Moved
<1>5. TypeOf(c)' /\ RowOf(c)' /\ KeyOf(c)' /\ BasisOf(c)' /\ ~ Committing(c)'
  BY <1>1, <1>2, <1>3, <1>4 DEF Sound, TypeOf, RowOf, KeyOf, BasisOf, Committing, InTransaction, Table,
     Stored, ChildrenOf
<1>6. SeenOf(c)'
  <2>1. Old(tx[c].snapshot) /\ \A j \in Children : Old(tx[c].deleted[j])
    BY <1>2 DEF Sound, SeenOf
  <2>2. \A j \in Children : tx'[c].deleted[j] = IF j = k THEN mine ELSE tx[c].deleted[j]
    BY <1>2, <1>3
  <2> QED BY <1>1, <1>3, <2>1, <2>2 DEF SeenOf, Old
<1>7. TornOf(c)'
  <2>1. CASE k = "findings"
    BY <1>1, <1>2, <1>3, <1>4, <2>1 DEF Sound, TornOf, BetweenDeletes, BothChosen, Chosen, At, Table, Stored
  <2>2. CASE k = "categories"
    BY <1>1, <1>2, <1>3, <1>4, <2>2 DEF Sound, TornOf, BetweenDeletes, BothChosen, Chosen, At, Table, Stored
  <2>3. CASE k = "actions"
    BY <1>1, <1>2, <1>3, <1>4, <2>3 DEF TornOf, BetweenDeletes, BothChosen, At, Table, ChildrenOf
  <2> QED BY <1>2, <2>1, <2>2, <2>3
<1>8. Sound(c)'
  BY <1>5, <1>6, <1>7 DEF Sound
<1> QED BY <1>1, <1>3, <1>4, <1>5, <1>8, ReadKept DEF Alone

\* The new rows are inserted: nobody else has inserted categories, and those that are there are deleted.
LEMMA InsertKept ==
  ASSUME IInv, NEW c \in Clients, client[c].pc = "insert", UNCHANGED <<row, Stored, commits>>,
         tx' = [tx EXCEPT ![c].inserted = TRUE], Goto(c, "commit"),
         Table(c) = "run" => /\ batches["categories"] \subseteq tx[c].deleted["categories"]
                             /\ \A d \in Others(c) : ~ tx[d].inserted
  PROVE  IInv'
<1>1. Sound(c) /\ Table(c) \in Tables
  BY Records
<1>2. /\ tx' \in [Clients -> Open]
      /\ tx'[c] = [tx[c] EXCEPT !.inserted = TRUE]
      /\ \A d \in Clients \ {c} : tx'[d] = tx[d]
  <2>1. tx' = [tx EXCEPT ![c] = [tx[c] EXCEPT !.inserted = TRUE]]
    OBVIOUS
  <2>2. [tx[c] EXCEPT !.inserted = TRUE] \in Open
    BY Records DEF Open
  <2> QED BY <2>1, <2>2, Records
<1>3. /\ tx'[c].seen = tx[c].seen /\ tx'[c].child = tx[c].child /\ tx'[c].deleted = tx[c].deleted
      /\ tx'[c].snapshot = tx[c].snapshot /\ tx'[c].torn = tx[c].torn /\ tx'[c].inserted
  BY <1>2, Records DEF Open
<1>4. /\ client' \in [Clients -> Request] /\ client'[c].pc = "commit"
      /\ \A d \in Clients \ {c} : client'[d] = client[d]
      /\ client'[c].basis = client[c].basis /\ client'[c].table = client[c].table
  BY Moved
<1>5. TypeOf(c)' /\ RowOf(c)' /\ BasisOf(c)'
  BY <1>1, <1>3, <1>4 DEF Sound, TypeOf, RowOf, BasisOf, InTransaction, Table, Stored
<1>6. KeyOf(c)'
  BY <1>3, <1>4 DEF KeyOf, Committing, Table, Stored
<1>7. SeenOf(c)'
  BY <1>1, <1>3 DEF Sound, SeenOf, Old
<1>8. TornOf(c)'
  BY <1>1, <1>3, <1>4 DEF Sound, TornOf, BetweenDeletes, BothChosen, Chosen, At, Table, Stored
<1>9. Sound(c)'
  BY <1>5, <1>6, <1>7, <1>8 DEF Sound
<1>10. Committing(c)' => \A d \in Clients \ {c} : ~ Committing(d)
  <2> SUFFICES ASSUME Committing(c)', NEW d \in Clients \ {c}, Committing(d)
               PROVE  FALSE
    OBVIOUS
  <2>1. Table(c) = "run"
    BY <1>4 DEF Committing, Table
  <2>2. d \in Others(c)
    BY <2>1 DEF Others, Committing, InTransaction
  <2>3. tx[d].inserted
    BY Records DEF Sound, KeyOf
  <2> QED BY <2>1, <2>2, <2>3
<1> QED BY <1>2, <1>4, <1>9, <1>10, ReadKept DEF Alone

LEMMA FailKept ==
  ASSUME IInv, NEW c \in Clients, Fail(c)
  PROVE  IInv'
<1>1. client[c].pc = "fail" /\ UNCHANGED <<row, Stored, commits>> /\ tx[c] = NoTx
  BY NoneOpen DEF Fail, At, InTransaction
<1>2. CASE Answer(c) /\ UNCHANGED tx
  BY <1>1, <1>2, NoneOpen, LeftKept DEF InTransaction
<1>3. CASE tx' = [tx EXCEPT ![c].seen = row[Table(c)]] /\ Goto(c, "mark")
  <2> DEFINE r == [NoTx EXCEPT !.seen = row[Table(c)]]
  <2>1. tx' = [tx EXCEPT ![c] = r]
    BY <1>1, <1>3
  <2>2. r \in Open /\ r.snapshot = {} /\ \A k \in Children : r.deleted[k] = {}
    BY Records, Constants DEF Open, NoTx
  <2> HIDE DEF r
  <2>3. /\ tx' \in [Clients -> Open] /\ tx'[c] = r
        /\ \A d \in Clients \ {c} : tx'[d] = tx[d]
    BY <2>1, <2>2, Records
  <2>4. /\ client' \in [Clients -> Request] /\ client'[c].pc = "mark"
        /\ \A d \in Clients \ {c} : client'[d] = client[d]
        /\ client'[c].basis = client[c].basis /\ client'[c].table = client[c].table
    BY <1>3, Moved
  <2>5. TypeOf(c)' /\ RowOf(c)' /\ KeyOf(c)' /\ ~ Committing(c)'
    BY <1>1, <2>4, Records DEF Sound, TypeOf, RowOf, KeyOf, Committing, InTransaction, Table
  <2>6. SeenOf(c)' /\ TornOf(c)'
    BY <2>2, <2>3, <2>4 DEF SeenOf, Old, TornOf, BetweenDeletes, BothChosen, At, Table
  <2>7. BasisOf(c)'
    BY <1>1, <2>4, Records DEF Sound, BasisOf, Table
  <2>8. Sound(c)'
    BY <2>5, <2>6, <2>7 DEF Sound
  <2> QED BY <1>1, <2>3, <2>4, <2>5, <2>8, ReadKept DEF Alone
<1> QED BY <1>2, <1>3 DEF Fail

LEMMA FaultKept ==
  ASSUME IInv, NEW c \in Clients, Refused(c) \/ Crash(c)
  PROVE  IInv'
<1>1. UNCHANGED <<row, Stored, commits>> /\ Closed(c)
  BY RolledBack DEF Refused, Crash, Closed
<1>2. CASE Answer(c)
  BY <1>1, <1>2, LeftKept
<1>3. CASE client[c].pc \in {"begin", "delete", "lock", "insert", "commit"} /\ Goto(c, "fail")
  <2>1. row[Table(c)] # "ABSENT"
    BY <1>3, Records DEF Sound, RowOf
  <2> QED BY <1>1, <1>3, <2>1, OnKept
<1> QED BY <1>2, <1>3 DEF Refused, Crash

-----------------------------------------------------------------------------
(* Steps that write the row                                                *)

\* A row that is created has no children; one that fails keeps what it has.
LEMMA WriteKept ==
  ASSUME IInv, NEW c \in Clients, NEW t \in Tables, NEW s \in {"QUEUED", "FAILED"},
         row' = [row EXCEPT ![t] = s], s = "QUEUED" => row[t] = "ABSENT",
         Alone(c), UNCHANGED <<Stored, commits>>, Sound(c)', ~ Committing(c)'
  PROVE  IInv'
<1>1. row \in [Tables -> Statuses \ {"EVALUATING"}]
  BY DEF IInv, Rows
<1>2. \A d \in Clients : Sound(d)'
  <2> SUFFICES ASSUME NEW d \in Clients \ {c} PROVE Sound(d)'
    OBVIOUS
  <2>1. Table(d) \in Tables /\ Sound(d)
    BY Records
  <2>2. row[Table(d)] # "ABSENT" => row'[Table(d)] # "ABSENT"
    BY <1>1, <2>1
  <2> QED BY <2>1, <2>2, OthersSound DEF Alone
<1>3. Shape' /\ Rows'
  BY <1>1 DEF IInv, Alone, Shape, Rows, Stored, Old
<1>4. RowsHaveResults'
  <2>1. UNCHANGED batches
    BY DEF Stored
  <2> QED BY <1>1, <2>1 DEF IInv, RowsHaveResults
<1>5. ScoreInv' /\ PlanInv'
  BY DEF IInv, ScoreInv, PlanInv, Stored
<1>6. OneCommits'
  BY DEF IInv, Alone, OneCommits, Committing, Table
<1> QED BY <1>2, <1>3, <1>4, <1>5, <1>6 DEF IInv

LEMMA CreateKept ==
  ASSUME IInv, NEW c \in Clients, CreateRow(c)
  PROVE  IInv'
<1>1. client[c].pc = "create" /\ UNCHANGED <<Stored, tx, commits>>
  BY DEF CreateRow, At
<1>2. Closed(c)
  BY <1>1, NoneOpen DEF InTransaction
<1>3. CASE row[Table(c)] = "ABSENT" /\ row' = [row EXCEPT ![Table(c)] = "QUEUED"] /\ Goto(c, "begin")
  <2>1. /\ client' \in [Clients -> Request] /\ client'[c].pc = "begin"
        /\ \A d \in Clients \ {c} : client'[d] = client[d]
        /\ client'[c].basis = client[c].basis /\ client'[c].table = client[c].table
    BY <1>3, Moved
  <2>2. RowOf(c)'
    BY <1>3, <2>1, Records DEF IInv, Rows, RowOf, Table
  <2>3. BasisOf(c)'
    BY <1>1, <2>1, Records DEF Sound, BasisOf, Table
  <2>4. Sound(c)' /\ ~ Committing(c)'
    BY <1>2, <2>1, <2>2, <2>3, OutsideSound DEF InTransaction, Closed
  <2> QED BY <1>1, <1>2, <1>3, <2>1, <2>4, Records, WriteKept DEF Alone, Closed
<1>4. CASE UNCHANGED row /\ Goto(c, "find")
  BY <1>1, <1>2, <1>4, OnKept
<1> QED BY <1>3, <1>4 DEF CreateRow

LEMMA MarkKept ==
  ASSUME IInv, NEW c \in Clients, Mark(c)
  PROVE  IInv'
<1>1. UNCHANGED <<Stored, commits>> /\ row' = [row EXCEPT ![Table(c)] = "FAILED"]
  BY DEF Mark
<1>2. Alone(c) /\ Sound(c)' /\ ~ Committing(c)'
  BY Answered, RolledBack, AnsweredSound DEF Mark, Alone
<1> QED BY <1>1, <1>2, Records, WriteKept

-----------------------------------------------------------------------------
(* The commit                                                              *)

LEMMA CommitKept ==
  ASSUME IInv, NEW c \in Clients, Commit(c)
  PROVE  IInv'
<1> DEFINE t == Table(c)
           new == [id |-> commits + 1, basis |-> client[c].basis]
<1>1. /\ client[c].pc = "commit" /\ Sound(c) /\ t \in Tables
      /\ row' = [row EXCEPT ![t] = "COMPLETED"] /\ commits' = commits + 1
      /\ batches' = [k \in Children |-> IF k \in ChildrenOf(t)
                                        THEN (batches[k] \ tx[c].deleted[k]) \cup {new}
                                        ELSE batches[k]]
      /\ (t = "run" => score' = commits + 1 /\ torn' = tx[c].torn)
      /\ (t # "run" => UNCHANGED <<score, torn>>)
      /\ tx' = [d \in Clients |->
                  IF d = c THEN NoTx ELSE [tx[d] EXCEPT !.torn = @ \/ (t = "run" /\ BetweenDeletes(d))]]
      /\ Answer(c) \/ Goto(c, "fail")
  BY Records DEF Commit, At
<1>2. new \in Batches /\ commits \in Nat /\ new.id = commits + 1 /\ new.basis = client[c].basis
  BY Records DEF Batches, Request
<1> HIDE DEF new
<1>3. /\ client' \in [Clients -> Request] /\ \A d \in Clients \ {c} : client'[d] = client[d]
      /\ \/ client'[c] = Idle
         \/ /\ client'[c].pc = "fail"
            /\ client'[c].basis = client[c].basis /\ client'[c].table = client[c].table
  BY <1>1, Moved, Answered
<1>4. /\ tx' \in [Clients -> Open] /\ tx'[c] = NoTx
      /\ \A d \in Clients \ {c} :
           tx'[d] = [tx[d] EXCEPT !.torn = @ \/ (t = "run" /\ BetweenDeletes(d))]
  <2>1. \A d \in Clients : [tx[d] EXCEPT !.torn = @ \/ (t = "run" /\ BetweenDeletes(d))] \in Open
    BY Records DEF Open
  <2> QED BY <1>1, <2>1, Constants
<1>5. Shape'
  <2>1. batches' \in [Children -> SUBSET Batches]
    BY <1>1, <1>2 DEF IInv, Shape
  <2>2. row' \in [Tables -> Statuses]
    BY <1>1 DEF IInv, Shape
  <2>3. score' \in Nat /\ commits' \in Nat /\ torn' \in BOOLEAN
    BY <1>1, <1>2, Records DEF IInv, Shape, Open
  <2> QED BY <1>3, <1>4, <2>1, <2>2, <2>3 DEF Shape
<1>6. Rows'
  <2>1. row' \in [Tables -> Statuses \ {"EVALUATING"}] /\ score' <= commits'
    BY <1>1, <1>2 DEF IInv, Shape, Rows
  <2>2. \A k \in Children : Old(batches[k])'
    <3> SUFFICES ASSUME NEW k \in Children, NEW b \in batches'[k] PROVE b.id \in 1 .. commits'
      BY DEF Old
    <3>1. CASE b = new
      BY <1>1, <1>2, <3>1
    <3>2. CASE b \in batches[k]
      BY <1>1, <1>2, <3>2 DEF IInv, Rows, Old
    <3> QED BY <1>1, <3>1, <3>2
  <2> QED BY <2>1, <2>2 DEF Rows
<1>7. RowsHaveResults'
  <2>1. \A k \in ChildrenOf(t) : new \in batches'[k]
    BY <1>1 DEF ChildrenOf
  <2>2. \A u \in Tables \ {t} : row'[u] = row[u] /\ \A k \in ChildrenOf(u) : batches'[k] = batches[k]
    BY <1>1 DEF IInv, Rows, ChildrenOf
  <2>3. row'[t] = "COMPLETED"
    BY <1>1 DEF IInv, Rows
  <2> QED BY <2>1, <2>2, <2>3 DEF IInv, RowsHaveResults
<1>8. ScoreInv'
  <2>1. CASE t = "run"
    <3>1. /\ batches'["findings"] = (batches["findings"] \ tx[c].deleted["findings"]) \cup {new}
          /\ batches'["categories"] = (batches["categories"] \ tx[c].deleted["categories"]) \cup {new}
          /\ score' = new.id /\ torn' = tx[c].torn
      BY <1>1, <1>2, <2>1 DEF ChildrenOf
    <3>2. batches["categories"] \subseteq tx[c].deleted["categories"]
      BY <1>1, <2>1 DEF Sound, KeyOf, Committing
    <3>3. batches'["categories"] = {new} /\ new \in batches'["findings"]
      BY <3>1, <3>2
    <3>4. ~ tx[c].torn => batches["findings"] \subseteq tx[c].deleted["findings"]
      BY <1>1, <2>1, <3>2 DEF Sound, TornOf, BothChosen, Chosen
    <3>5. torn' \/ batches'["findings"] = {new}
      BY <3>1, <3>4
    <3>6. score' # 0
      BY <1>2, <3>1
    <3> QED BY <1>2, <3>1, <3>3, <3>5, <3>6 DEF ScoreInv
  <2>2. CASE t # "run"
    BY <1>1, <2>2 DEF IInv, ScoreInv, ChildrenOf
  <2> QED BY <2>1, <2>2
<1>9. PlanInv'
  <2>1. CASE t = "plan"
    <3>1. Whole(new.basis)
      BY <1>1, <1>2, <2>1 DEF Sound, BasisOf
    <3>2. \A b \in batches'["actions"] : b = new \/ b \in batches["actions"]
      BY <1>1, <2>1 DEF ChildrenOf
    <3> QED BY <3>1, <3>2 DEF IInv, PlanInv
  <2>2. CASE t = "run"
    BY <1>1, <2>2 DEF IInv, PlanInv, ChildrenOf
  <2> QED BY <1>1, <2>1, <2>2
<1>10. ~ Committing(c)' /\ \A d \in Clients \ {c} : Committing(d)' => Committing(d)
  BY <1>3 DEF Committing, Table, Idle
<1>11. OneCommits'
  BY <1>10 DEF IInv, OneCommits
<1>12. Sound(c)'
  <2>1. CASE client'[c] = Idle
    BY <1>4, <2>1, AnsweredSound
  <2>2. CASE /\ client'[c].pc = "fail"
             /\ client'[c].basis = client[c].basis /\ client'[c].table = client[c].table
    <3>1. RowOf(c)'
      BY <1>1, <2>2 DEF IInv, Rows, RowOf, Table
    <3>2. BasisOf(c)'
      BY <1>1, <2>2 DEF Sound, BasisOf, Table
    <3> QED BY <1>4, <2>2, <3>1, <3>2, OutsideSound DEF InTransaction
  <2> QED BY <1>3, <2>1, <2>2
<1>13. ASSUME NEW d \in Clients \ {c}
       PROVE  Sound(d)'
  <2>1. /\ client'[d] = client[d] /\ Sound(d) /\ Table(d) \in Tables
        /\ tx'[d] = [tx[d] EXCEPT !.torn = @ \/ (t = "run" /\ BetweenDeletes(d))]
    BY <1>3, <1>4, Records
  <2>2. /\ tx'[d].seen = tx[d].seen /\ tx'[d].child = tx[d].child /\ tx'[d].deleted = tx[d].deleted
        /\ tx'[d].snapshot = tx[d].snapshot /\ tx'[d].inserted = tx[d].inserted
        /\ tx'[d].torn = (tx[d].torn \/ (t = "run" /\ BetweenDeletes(d)))
    BY <2>1, Records DEF Open
  <2>3. TypeOf(d)'
    <3>1. client[d].pc \notin InTransaction => tx'[d] = NoTx
      <4> SUFFICES ASSUME client[d].pc \notin InTransaction PROVE tx'[d] = NoTx
        OBVIOUS
      <4>1. tx[d] = NoTx /\ ~ BetweenDeletes(d)
        BY <2>1 DEF Sound, TypeOf, BetweenDeletes, At, InTransaction
      <4>2. tx[d].torn = FALSE
        BY <4>1 DEF NoTx
      <4>3. (tx[d].torn \/ (t = "run" /\ BetweenDeletes(d))) = FALSE
        BY <4>1, <4>2
      <4>4. tx'[d] = [NoTx EXCEPT !.torn = FALSE]
        BY <2>1, <4>1, <4>3
      <4> QED BY <4>4 DEF NoTx
    <3> QED BY <2>1, <2>2, <3>1 DEF Sound, TypeOf, Table
  <2>4. RowOf(d)'
    BY <1>1, <2>1 DEF IInv, Rows, Sound, RowOf, Table
  <2>5. KeyOf(d)'
    <3> SUFFICES ASSUME Committing(d) PROVE KeyOf(d)'
      BY <1>10 DEF KeyOf
    <3>1. t # "run"
      BY <1>1 DEF IInv, OneCommits, Committing
    <3>2. batches'["categories"] = batches["categories"]
      BY <1>1, <3>1 DEF ChildrenOf
    <3> QED BY <2>1, <2>2, <3>2 DEF Sound, KeyOf
  <2>6. SeenOf(d)'
    BY <1>1, <1>2, <2>1, <2>2 DEF Sound, SeenOf, Old
  <2>7. TornOf(d)'
    <3>1. BetweenDeletes(d)' = BetweenDeletes(d) /\ BothChosen(d)' = BothChosen(d)
      BY <2>1, <2>2 DEF BetweenDeletes, BothChosen, At, Table
    <3>2. \A k \in Children : Chosen(d, k)' = Chosen(d, k)
      BY <2>1, <2>2 DEF Chosen
    <3>3. CASE t = "run"
      <4>1. new \in batches'["categories"]
        BY <1>1, <3>3 DEF ChildrenOf
      <4>2. new \notin Chosen(d, "categories")
        BY <1>2, <2>1 DEF Sound, SeenOf, Old, Chosen
      <4> QED BY <2>2, <3>1, <3>2, <3>3, <4>1, <4>2 DEF TornOf
    <3>4. CASE t # "run"
      BY <1>1, <2>1, <2>2, <3>1, <3>2, <3>4 DEF Sound, TornOf, ChildrenOf
    <3> QED BY <3>3, <3>4
  <2>8. BasisOf(d)'
    BY <1>1, <1>2, <2>1 DEF Sound, BasisOf, Table
  <2> QED BY <2>3, <2>4, <2>5, <2>6, <2>7, <2>8 DEF Sound
<1>14. \A d \in Clients : Sound(d)'
  BY <1>12, <1>13
<1> QED BY <1>5, <1>6, <1>7, <1>8, <1>9, <1>11, <1>14 DEF IInv

-----------------------------------------------------------------------------

LEMMA NextInv == IInv /\ [Next]_vars => IInv'
<1> SUFFICES ASSUME IInv, [Next]_vars PROVE IInv'
  OBVIOUS
<1>1. CASE UNCHANGED vars
  <2>1. UNCHANGED <<row, Stored, tx, client, commits>>
    BY <1>1 DEF vars, Stored
  <2>2. \A c \in Clients : Sound(c)'
    BY <2>1, OthersSound DEF IInv
  <2>3. Shape' /\ Rows' /\ RowsHaveResults' /\ ScoreInv' /\ PlanInv' /\ OneCommits'
    BY <2>1 DEF IInv, Shape, Rows, Old, RowsHaveResults, ScoreInv, PlanInv, OneCommits, Committing, Table,
       Stored
  <2> QED BY <2>2, <2>3 DEF IInv
<1>2. ASSUME NEW c \in Clients, AskRun(c) \/ AskPlan(c) \/ Handle(c) \/ Refused(c) \/ Crash(c)
      PROVE  IInv'
  <2>1. CASE AskRun(c) \/ AskPlan(c) \/ ReadFindings(c)
    BY <2>1, AskKept
  <2>2. CASE Find(c) \/ Begin(c)
    BY <2>2, FindKept, BeginKept
  <2>3. CASE Delete(c) \/ Lock(c)
    BY <2>3, DeleteKept, LockKept
  <2>4. CASE insertActions(c)
    BY <2>4, InsertKept DEF insertActions, InsertUnkeyed, At
  <2>5. CASE insertFindings(c)
    <3>1. CASE Rollback(c) /\ Goto(c, "fail")
      <4>1. client[c].pc = "insert" /\ UNCHANGED <<row, Stored, commits>>
        BY <2>5 DEF insertFindings, At
      <4>2. row[Table(c)] # "ABSENT"
        BY <4>1, Records DEF Sound, RowOf
      <4> QED BY <3>1, <4>1, <4>2, RolledBack, OnKept DEF Closed
    <3>2. CASE /\ batches["categories"] \ tx[c].deleted["categories"] = {}
               /\ tx' = [tx EXCEPT ![c].inserted = TRUE] /\ Goto(c, "commit")
      BY <2>5, <3>2, InsertKept DEF insertFindings, At
    <3> QED BY <2>5, <3>1, <3>2 DEF insertFindings
  <2>6. CASE Commit(c)
    BY <2>6, CommitKept
  <2>7. CASE CreateRow(c) \/ Mark(c)
    BY <2>7, CreateKept, MarkKept
  <2>8. CASE Fail(c) \/ Refused(c) \/ Crash(c)
    BY <2>8, FailKept, FaultKept
  <2> QED BY <1>2, <2>1, <2>2, <2>3, <2>4, <2>5, <2>6, <2>7, <2>8
      DEF Handle, createRunQueued, createPlanQueued, persistRun, persistPlan, markRunFailed,
          markPlanFailed
<1> QED BY <1>1, <1>2 DEF Next

THEOREM Invariance == Spec => []IInv
BY InitInv, NextInv, PTL DEF Spec

-----------------------------------------------------------------------------

\* Rows and requests stay within their types: nothing is deleted, inserted or committed outside
\* a transaction, and the statuses that a transaction goes through inside it are never seen.
THEOREM TypeCorrect == Spec => []TypeOK
<1>1. IInv => TypeOK
  <2> SUFFICES ASSUME IInv PROVE TypeOK
    OBVIOUS
  <2>1. \A c \in Clients : /\ client[c].table \in Tables /\ client[c].pc \in Pcs
                           /\ TypeOf(c)
    BY Records DEF Request, Sound
  <2>2. score \in 0 .. commits
    BY DEF IInv, Shape, Rows
  <2> QED BY <2>1, <2>2 DEF IInv, Rows, Old, TypeOf, TypeOK
<1> QED BY <1>1, Invariance, PTL

\* The categories of a run are those of the evaluation its score is from, once, with all its
\* findings and, unless another request committed between the two DELETEs, no others: however
\* many requests evaluate it side by side (compatibility-repository.ts, persistCompleted).
THEOREM OneEvaluation == Spec => []OneReport
<1>1. IInv => OneReport
  <2> SUFFICES ASSUME IInv, score # 0 PROVE OneReport
    BY DEF OneReport
  <2>1. PICK b \in Batches : /\ b.id = score /\ batches["categories"] = {b}
                             /\ b \in batches["findings"]
                             /\ torn \/ batches["findings"] = {b}
    BY DEF IInv, ScoreInv
  <2>2. Ids("categories") = {score} /\ score \in Ids("findings")
    BY <2>1 DEF Ids
  <2>3. torn \/ Ids("findings") = {score}
    BY <2>1 DEF Ids
  <2> QED BY <2>2, <2>3 DEF OneReport
<1> QED BY <1>1, Invariance, PTL

\* A completed run has findings and categories and a completed plan actions, and one that is
\* only queued has none: a result and its rows are committed together.
THEOREM ResultsHaveRows == Spec => []RowsHaveResults
BY Invariance, PTL DEF IInv

\* No plan is made from an empty report, nor from the findings of two evaluations unless the run
\* was committed over another one between its two DELETEs (plan-service.ts).
THEOREM PlannedFromOne == Spec => []PlanHasOneReport
<1>1. IInv => PlanHasOneReport
  BY SingleCard DEF IInv, PlanInv, Whole, PlanHasOneReport
<1> QED BY <1>1, Invariance, PTL

=============================================================================
