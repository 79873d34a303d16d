-------------------------- MODULE ReviewProperties --------------------------
(* What compatibility runs and migration plans promise.                    *)
EXTENDS Review

Pcs == {"idle", "read", "find", "create", "begin", "delete", "lock", "insert", "commit", "fail",
        "mark"}

\* Every row and request stays within its type, and only a transaction that is
\* open has deleted or inserted anything.
TypeOK ==
  /\ row \in [Tables -> Statuses \ {"EVALUATING"}]
  /\ \A k \in Children : \A b \in batches[k] : b.id \in 1 .. commits
  /\ score \in 0 .. commits
  /\ \A c \in Clients :
       /\ client[c].table \in Tables /\ client[c].pc \in Pcs
       /\ client[c].pc \notin InTransaction => tx[c] = NoTx
       /\ client[c].pc \in {"delete", "lock", "insert", "commit"}
            => /\ tx[c].seen \in {"QUEUED", "FAILED"}
               /\ tx[c].child \in ChildrenOf(Table(c))

Ids(k) == {b.id : b \in batches[k]}

\* However many requests evaluate a run side by side, wait for one another and fail on one
\* another's categories, its categories are those of the evaluation its score is from, once, and
\* all findings of that evaluation are there.  Nothing else is, with one exception: the findings
\* of a request that committed between the two DELETEs of the one whose score it is.
OneReport ==
  score # 0 =>
    /\ Ids("categories") = {score}
    /\ score \in Ids("findings")
    /\ torn \/ Ids("findings") = {score}

\* Child rows belong to a result: a row that never was completed has none, and
\* a completed one has some.
RowsHaveResults ==
  \A t \in Tables : \A k \in ChildrenOf(t) :
    /\ row[t] \in {"ABSENT", "QUEUED"} => batches[k] = {}
    /\ row[t] = "COMPLETED" => batches[k] # {}

\* A plan is made from all findings of a complete evaluation, never from none, though the run may
\* fail and be evaluated again after its status was read; and from those of one evaluation only,
\* with the same exception.
PlanHasOneReport ==
  \A b \in batches["actions"] :
    /\ b.basis.findings # {}
    /\ b.basis.torn \/ Cardinality(b.basis.findings) = 1

\* A row that is there gets completed and stays completed, though requests write
\* it side by side, wait for each other and fail on each other's categories,
\* unless a call failed or a process died.
RowSettles ==
  \A t \in Tables : <>[](row[t] \in {"ABSENT", "COMPLETED"} \/ lost)

\* "Semantic duplicates merge." (docs/MIGRATION_PLANNER.md:65): each action of a
\* completed plan is there once.
ActionsAreThereOnce == row["plan"] = "COMPLETED" => Cardinality(batches["actions"]) = 1

\* "Completed rows are never overwritten." (docs/COMPATIBILITY_ENGINE.md:129): nothing but the
\* findings of the evaluation its score is from is in a completed run ...
FindingsAreOfTheScore == row["run"] = "COMPLETED" => Ids("findings") = {score}

\* ... and neither its status nor its rows change.
CompletedRowsStand ==
  [][\A t \in Tables :
       row[t] = "COMPLETED" =>
         row'[t] = "COMPLETED" /\ \A k \in ChildrenOf(t) : batches'[k] = batches[k]]_vars

=============================================================================
