------------------------- MODULE PipelineProperties -------------------------
(***************************************************************************)
(* What the engines promise of each other's results.                       *)
(***************************************************************************)
EXTENDS Pipeline

\* What the developer is told of a report and its plan.
Told(r, q) ==
  [score |-> r.score, coverage |-> r.coverage, readiness |-> r.readiness,
   outcome |-> q.outcome, autoFixable |-> q.autoFixable,
   actions |-> {<<a.key, a.automation>> : a \in ToSet(q.actions)}]

Planned(r, order) == Told(r, PlannedFrom(r, order))

Verdicts == {Planned(EvaluatedFrom(o), p) : o \in Orders, p \in Orders}

\* The database returns requirements and findings in no particular order, and the engines keep the
\* first of what they take for the same: the score, the verdict and the actions of the plan do not
\* depend on the order (dedupeFindings, scoreFindings, mergeDrafts).
VerdictIsStable ==
  stage = "SCANNED" => Cardinality(Verdicts) = 1

Found(status) == Count(report.findings, status) > 0

\* The plan and the report it was made from tell the developer the same: blocked together, nothing
\* to do when ready, something to verify exactly when something is unknown; every requirement that
\* did not pass has an action; and a plan can be ordered by its dependencies.
PlanAgreesWithReport ==
  stage = "PLANNED" =>
    /\ (report.readiness = "BLOCKED") <=> (plan.outcome = "BLOCKED")
    /\ report.readiness = "READY" <=> plan.actions = <<>>
    /\ ~Found("BLOCKER") => (Found("UNKNOWN") => plan.outcome = "NEEDS_VERIFICATION")
    /\ \A k \in DOMAIN report.findings :
         report.findings[k].status # "PASS" =>
           \E n \in DOMAIN plan.actions : report.findings[k].requirement \in plan.actions[n].findings
    /\ ToSet(plan.order) = {plan.actions[n].key : n \in DOMAIN plan.actions}

\* Whether a requirement was reported with this line's value, or as the key of this line.
Reports(r, l) ==
  CASE r.key = "ENV_KEY"            -> l.kind = "env" /\ l.name = r.detected
    [] r.key = "HARDCODED_CHAIN_ID" -> l.kind = "chainId" /\ l.value = r.detected
    [] OTHER                        -> l.value \in {r.detected, r.normalized}

\* The lines of a revision that a detector has reported.
DetectorReports(p) ==
  \E k \in DOMAIN requirements :
    /\ Reports(requirements[k], repo[p[1]][p[2]])
    /\ \E e \in ToSet(requirements[k].evidence) : e.file = p[1]

\* The first chain_id of a foundry.toml, of whichever profile, when the chain ID of the default
\* profile comes later and stands in it: the detector reads the value from the one and takes the
\* line of the other (findLineMatching in detectors/chain-id.ts).
TakenForDefault(p) ==
  LET text == repo[p[1]]
      chainIds == {n \in DOMAIN text : text[n].kind = "chainId"}
  IN /\ Files[p[1]].path = "foundry.toml"
     /\ p[2] \in chainIds /\ \A n \in chainIds : p[2] <= n
     /\ \E n \in chainIds : /\ p[2] < n /\ text[n].name = "default"
                            /\ Occurrences(text[n].value, text[p[2]].value) = 1

\* A finalized revision differs from the one before it only in values that a detector reported in
\* that very file, whatever patch put them there and in whatever order: text that looks like a
\* reported value is left alone (replaceLineValue, the patchers), but for the first chain_id of a
\* foundry.toml, which may be another profile's than the one whose value was read.
OnlyAnotherProfileIsMistaken ==
  [][\A p \in ChangedLines(repo, repo') : DetectorReports(p) \/ TakenForDefault(p)]_vars

\* Patches are made one by one from the untouched revision and applied one on another, in the order
\* of a time they all share.  Only in a JSON file, which is searched as text, can one patch keep
\* another from applying and so fail the whole finalization.
OnlyJsonPatchesCollide ==
  stage = "FAILED" =>
    \E j, k \in Accepted : /\ j # k
                           /\ changes[j].file = changes[k].file
                           /\ Files[changes[j].file].category = "JSON"

\* What has been migrated stays: when the generated revision is migrated once more to the same
\* target, no patch is proposed for a line that was patched before (the rules' "already at the
\* target", the patchers' "no content change").
MigratedStaysMigrated ==
  stage = "READY_FOR_REVIEW" =>
    \A k \in DOMAIN changes :
      changes[k].status = "PROPOSED" => <<changes[k].file, changes[k].line>> \notin migrated

Proposals(p) ==
  {<<c.file, c.line, c.target>> : c \in {d \in ToSet(GeneratedFrom(p)) : d.status = "PROPOSED"}}

\* The patches proposed for a report are determined by it: whichever order its findings are read
\* in, the same lines are to be changed.
PatchesAreDeterministic ==
  stage = "PLANNED" =>
    \A o \in Orders : Proposals(PlannedFrom(report, o)) = Proposals(plan)
-----------------------------------------------------------------------------
(* What the repository says and the code does not keep.                    *)

\* "Similar-looking text is never rewritten." (docs/CHANGESET_ENGINE.md:42)
SimilarTextIsNeverRewritten ==
  [][\A p \in ChangedLines(repo, repo') : DetectorReports(p)]_vars
=============================================================================
