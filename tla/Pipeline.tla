------------------------------ MODULE Pipeline ------------------------------
(***************************************************************************)
(* A repository on its way through the engines: scanned, evaluated against *)
(* a target, planned, patched, reviewed and finalized, and, when the new   *)
(* revision has been pushed, once more.                                    *)
(*                                                                         *)
(* Between two engines everything is a row of a table.  Requirements are   *)
(* read in no order, findings by status and category only, and the         *)
(* accepted changes by a time that all of them share.                      *)
(***************************************************************************)
EXTENDS Patches

CONSTANTS
  Repos,         \* the repositories: the lines of each of Files
  Migrations,    \* <<source, target>> chains
  Failing,       \* the detectors that may throw
  MaxPasses      \* bound: how often a repository is migrated

\* A repository has finitely many files and lines.
ASSUME RepositoriesAssumption ==
  /\ Files \in Seq(ToSet(Files))
  /\ \A r \in Repos : DOMAIN r = DOMAIN Files /\ \A i \in DOMAIN r : r[i] \in Seq(ToSet(r[i]))

VARIABLES
  repo,          \* the text of the revision being migrated
  context,       \* the source, the target and the snapshot of the registry
  stage,         \* the last engine that ran
  failed,        \* the detectors that threw
  requirements, report, plan, changes,   \* what the engines stored
  migrated,      \* the lines that earlier passes have changed
  pass

vars == <<repo, context, stage, failed, requirements, report, plan, changes, migrated, pass>>

ContextOf(m) ==
  [sourceChainId  |-> requireChainByKey(m[1]).chainId,
   targetChainId  |-> requireChainByKey(m[2]).chainId,
   targetChainKey |-> m[2],
   snapshot       |-> buildTargetCapabilitySnapshot(m[2])]

Init ==
  /\ repo \in Repos
  /\ \E m \in Migrations : context = ContextOf(m)
  /\ stage = "INGESTED"
  /\ failed = {}
  /\ requirements = <<>>
  /\ report = [findings |-> <<>>, score |-> 0, coverage |-> 0, readiness |-> "NONE"]
  /\ plan = [actions |-> <<>>, order |-> <<>>, outcome |-> "NONE", autoFixable |-> 0]
  /\ changes = <<>>
  /\ migrated = {}
  /\ pass = 1

-----------------------------------------------------------------------------
(* Rows without an order                                                   *)

Orders == {"as written", "reversed"}
Rows(s, order) == IF order = "reversed" THEN Reverse(s) ELSE s

\* A requirement is known by its row.
Identified(drafts) ==
  [k \in DOMAIN drafts |-> [id |-> k] @@ drafts[k]]

StatusRank   == [PASS |-> 0, WARNING |-> 1, BLOCKER |-> 2, UNKNOWN |-> 3]
CategoryRank == [CONTRACTS |-> 0, RPC |-> 1, TOKENS |-> 2, ORACLES |-> 3, PROTOCOLS |-> 4,
                 CROSS_CHAIN |-> 5, FRONTEND |-> 6, CONFIGURATION |-> 7]

\* Findings as the planner reads them.
ByStatusAndCategory(findings) ==
  SortedBy(findings, [k \in DOMAIN findings |->
                        8 * StatusRank[findings[k].status] + CategoryRank[findings[k].category]])

EvaluatedFrom(order) ==
  evaluateCompatibility(context, Rows(requirements, order), hasSolidityContracts(repo))

PlannedFrom(r, order) ==
  createMigrationPlan(context, ByStatusAndCategory(Rows(r.findings, order)))

GeneratedFrom(p) ==
  LET safe == Where(p.actions, LAMBDA a : a.automation = SafeAutomatic)
  IN [k \in DOMAIN safe |-> Generated(safe[k], repo)]

-----------------------------------------------------------------------------
(* The stages                                                              *)

Scan ==
  /\ stage = "INGESTED"
  /\ \E broken \in SUBSET Failing :
       /\ failed' = broken
       /\ requirements' = Identified(analyzeRepository(repo, broken))
  /\ stage' = "SCANNED"
  /\ UNCHANGED <<repo, context, report, plan, changes, migrated, pass>>

EvaluateRun ==
  /\ stage = "SCANNED"
  /\ \E order \in Orders : report' = EvaluatedFrom(order)
  /\ stage' = "EVALUATED"
  /\ UNCHANGED <<repo, context, failed, requirements, plan, changes, migrated, pass>>

PlanMigration ==
  /\ stage = "EVALUATED"
  /\ \E order \in Orders : plan' = PlannedFrom(report, order)
  /\ stage' = "PLANNED"
  /\ UNCHANGED <<repo, context, failed, requirements, report, changes, migrated, pass>>

Generate ==
  /\ stage = "PLANNED"
  /\ changes' = GeneratedFrom(plan)
  /\ stage' = "READY_FOR_REVIEW"
  /\ UNCHANGED <<repo, context, failed, requirements, report, plan, migrated, pass>>

\* The reviewer accepts some of the proposed changes and rejects the others.
Decide ==
  /\ stage = "READY_FOR_REVIEW"
  /\ \E accepted \in SUBSET {k \in DOMAIN changes : changes[k].status = "PROPOSED"} :
       changes' = [k \in DOMAIN changes |->
                     IF changes[k].status = "PROPOSED"
                     THEN [changes[k] EXCEPT !.status = IF k \in accepted THEN "ACCEPTED" ELSE "REJECTED"]
                     ELSE changes[k]]
  /\ stage' = "DECIDED"
  /\ UNCHANGED <<repo, context, failed, requirements, report, plan, migrated, pass>>

\* The accepted changes on one another, in some order, until one does not apply.
Applied(acc, file, patch) ==
  IF ~acc.ok \/ patch.code # None THEN [acc EXCEPT !.ok = FALSE]
  ELSE [acc EXCEPT !.text[file] = patch.text]

Apply(order) ==
  LET next(acc, change) ==
        Applied(acc, change.file, applyPatchToWorkingText(change, acc.text[change.file]))
      applied[n \in 0 .. Len(order)] ==
        IF n = 0 THEN [ok |-> TRUE, text |-> repo] ELSE next(applied[n - 1], changes[order[n]])
  IN applied[Len(order)]

ChangedLines(before, after) ==
  {p \in UNION {{i} \X DOMAIN before[i] : i \in DOMAIN before} :
     before[p[1]][p[2]] # after[p[1]][p[2]]}

Accepted == {k \in DOMAIN changes : changes[k].status = "ACCEPTED"}

Finalize ==
  /\ stage = "DECIDED"
  /\ \E applied \in {Apply(order) : order \in SetToSeqs(Accepted)} :
       IF applied.ok
       THEN /\ repo' = applied.text
            /\ migrated' = migrated \cup ChangedLines(repo, applied.text)
            /\ stage' = "FINALIZED"
       ELSE stage' = "FAILED" /\ UNCHANGED <<repo, migrated>>
  /\ UNCHANGED <<context, failed, requirements, report, plan, changes, pass>>

\* The generated revision is pushed, ingested as a new commit and migrated again.
MigrateAgain ==
  /\ stage = "FINALIZED"
  /\ pass < MaxPasses
  /\ pass' = pass + 1
  /\ stage' = "INGESTED"
  /\ UNCHANGED <<repo, context, failed, requirements, report, plan, changes, migrated>>

Next == Scan \/ EvaluateRun \/ PlanMigration \/ Generate \/ Decide \/ Finalize \/ MigrateAgain

Spec == Init /\ [][Next]_vars
=============================================================================
