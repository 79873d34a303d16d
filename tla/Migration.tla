----------------------------- MODULE Migration ------------------------------
(***************************************************************************)
(* The migration planner: the findings of a compatibility run as actions,  *)
(* one per semantic key, in an order that respects their dependencies.     *)
(*                                                                         *)
(* Names, descriptions and risk levels are wording and are left out.       *)
(***************************************************************************)
EXTENDS Compatibility

SafeAutomatic == "SAFE_AUTOMATIC"
Review        == "REVIEW_REQUIRED"

isTokenAddress(v) == \E t \in TOKEN_KEYS, c \in ChainKeys : v = Deployed(t, c)

draft(f, key, category, stage, automation, source, target, dependsOn) ==
  [key |-> key, ruleId |-> f.ruleId, category |-> category, stage |-> stage,
   automation |-> automation, source |-> source, target |-> target,
   findings |-> {f.requirement}, evidence |-> ToSet(f.evidence), dependsOn |-> dependsOn]

-----------------------------------------------------------------------------
(* The rules                                                               *)

ChainIdKey(context) == <<"chain-id", context.sourceChainId, context.targetChainId>>

chainIdMigrationRule(f, context) ==
  IF f.category = "FRONTEND"
  THEN draft(f, <<"frontend-chain-id", context.sourceChainId, context.targetChainId>>,
             "FRONTEND_NETWORK", "FRONTEND_CONFIGURATION", SafeAutomatic, f.source,
             context.targetChainId, {ChainIdKey(context)})
  ELSE draft(f, ChainIdKey(context), "CHAIN_ID", "NETWORK_CONFIGURATION", SafeAutomatic, f.source,
             context.targetChainId, {})

\* Every target has one endpoint, so there is never one to choose.
rpcUrlMigrationRule(f, context) ==
  LET urls == context.snapshot.rpcUrls
      automation == IF Len(urls) = 1 THEN SafeAutomatic ELSE Review
  IN IF f.category = "FRONTEND"
     THEN draft(f, <<"frontend-rpc", f.source.value>>, "FRONTEND_NETWORK", "FRONTEND_CONFIGURATION",
                automation, f.source, urls[1], {ChainIdKey(context)})
     ELSE draft(f, <<"rpc-url", f.source.value>>, "RPC_URL", "RPC_AND_EXPLORER",
                automation, f.source, urls[1], {ChainIdKey(context)})

NAMED_NETWORKS == {"SEPOLIA", "MAINNET", "ARBITRUM", "OPTIMISM", "ETHEREUM", "BASE"}

\* The target's key in capitals, as it is looked for in the name of an environment key.
EnvName(key) == CASE key = "base" -> "BASE" [] key = "base-sepolia" -> "BASE_SEPOLIA" [] OTHER -> key

\* Whatever it configures, a key is set to an endpoint or to the chain ID.
envConfigMigrationRule(f, context) ==
  LET key == IF f.source.key = None THEN f.source.value ELSE f.source.key
      rpc == Has(key, {"RPC"})
      foreign == Has(key, NAMED_NETWORKS) /\ ~Has(key, {EnvName(context.targetChainKey)})
  IN draft(f, <<"env", key>>, "ENV_CONFIG",
           IF rpc THEN "RPC_AND_EXPLORER" ELSE "NETWORK_CONFIGURATION",
           IF foreign THEN Review ELSE SafeAutomatic, f.source,
           IF rpc THEN context.snapshot.rpcUrls[1] ELSE context.targetChainId,
           {ChainIdKey(context)})

\* What the rules about a capability say of one that is missing or not verified.
Blocked(f, kind, name, stage) ==
  draft(f, <<kind, "blocked", name>>, "BLOCKED_INFRASTRUCTURE", stage, "BLOCKED", f.source, f.target, {})
Unverified(f, kind, name, category, stage) ==
  draft(f, <<kind, "unknown", name>>, category, stage, "UNKNOWN", f.source, f.target, {})

tokenAddressMigrationRule(f, context) ==
  CASE f.status = "BLOCKER" -> Blocked(f, "token", f.about, "TOKEN_MAPPINGS")
    [] f.status # "BLOCKER" /\ (f.status = "UNKNOWN" \/ ~isTokenAddress(f.target)) ->
         Unverified(f, "token", f.about, "TOKEN_ADDRESS", "TOKEN_MAPPINGS")
    [] OTHER ->
         draft(f, <<"token", f.about, f.source.value, f.target>>, "TOKEN_ADDRESS", "TOKEN_MAPPINGS",
               IF f.about = "WETH" THEN Review ELSE SafeAutomatic, f.source, f.target,
               {ChainIdKey(context)})

infrastructureAddressMigrationRule(f, context) ==
  CASE f.status = "BLOCKER" -> Blocked(f, "infra", f.requirementKey, "INFRASTRUCTURE_CONTRACTS")
    [] f.status = "UNKNOWN" ->
         Unverified(f, "infra", f.requirementKey, "INFRASTRUCTURE_ADDRESS", "INFRASTRUCTURE_CONTRACTS")
    [] OTHER ->
         draft(f, <<"infra", f.requirementKey>>, "INFRASTRUCTURE_ADDRESS", "INFRASTRUCTURE_CONTRACTS",
               Review, f.source, f.target, {ChainIdKey(context)})

\* Every feed and the Functions router are one label.
oracleMigrationRule(f, context) ==
  CASE f.status = "BLOCKER" -> Blocked(f, "oracle", "Chainlink", "ORACLES")
    [] f.status = "UNKNOWN" -> Unverified(f, "oracle", "Chainlink", "ORACLE_FEED", "ORACLES")
    [] OTHER -> draft(f, <<"oracle", "Chainlink">>, "ORACLE_FEED", "ORACLES", Review, f.source,
                      f.target, {})

rpcCapabilityMigrationRule(f, context) ==
  IF f.status = "BLOCKER"
  THEN draft(f, <<"rpc-capability", "blocked", f.source.value>>, "RPC_CAPABILITY", "RPC_AND_EXPLORER",
             "BLOCKED", f.source, "UNAVAILABLE", {})
  ELSE draft(f, <<"rpc-capability", "unknown", f.source.value>>, "RPC_CAPABILITY", "RPC_AND_EXPLORER",
             "UNKNOWN", f.source, "UNKNOWN", {})

crossChainMigrationRule(f, context) ==
  CASE f.status = "BLOCKER" -> Blocked(f, "cross-chain", "LAYERZERO", "CROSS_CHAIN")
    [] f.status = "UNKNOWN" -> Unverified(f, "cross-chain", "LAYERZERO", "CROSS_CHAIN", "CROSS_CHAIN")
    [] OTHER -> draft(f, <<"cross-chain", "LAYERZERO">>, "CROSS_CHAIN", "CROSS_CHAIN", Review,
                      f.source, f.target, {})

projectDeploymentMigrationRule(f, context) ==
  draft(f, <<"project-deployment", f.about>>, "ENV_CONFIG", "DEPLOYMENT_CONFIGURATION", Review,
        f.source, None, {})

unknownAddressMigrationRule(f, context) ==
  draft(f, <<"unknown-address">>, "UNKNOWN_ADDRESS", "MANUAL_REVIEW", "UNKNOWN", f.source, None, {})

fallbackMigrationRule(f, context) ==
  CASE f.status = "BLOCKER" -> Blocked(f, "fallback", f.requirement, "MANUAL_REVIEW")
    [] f.status = "UNKNOWN" ->
         draft(f, <<"unknown", f.ruleId>>, "UNKNOWN_ADDRESS", "MANUAL_REVIEW", "UNKNOWN", f.source,
               f.target, {})
    [] OTHER -> draft(f, <<"review", f.requirement>>, "ENV_CONFIG", "MANUAL_REVIEW", Review, f.source,
                      f.target, {})

\* The first of MIGRATION_RULES that supports the finding.
createAction(f, context) ==
  CASE f.ruleId = "chain-id"            -> chainIdMigrationRule(f, context)
    [] f.ruleId = "hardcoded-rpc"       -> rpcUrlMigrationRule(f, context)
    [] f.ruleId = "env-config"          -> envConfigMigrationRule(f, context)
    [] f.ruleId = "token-availability"  -> tokenAddressMigrationRule(f, context)
    [] f.ruleId \in {"infrastructure-contract", "uniswap"} ->
         infrastructureAddressMigrationRule(f, context)
    [] f.ruleId = "oracle-availability" -> oracleMigrationRule(f, context)
    [] f.ruleId = "rpc-capability"      -> rpcCapabilityMigrationRule(f, context)
    [] f.ruleId = "layerzero"           -> crossChainMigrationRule(f, context)
    [] f.ruleId = "project-deployment"  -> projectDeploymentMigrationRule(f, context)
    [] f.ruleId = "hardcoded-address"   -> unknownAddressMigrationRule(f, context)
    [] OTHER                            -> fallbackMigrationRule(f, context)

-----------------------------------------------------------------------------
(* createMigrationPlan                                                     *)

\* Drafts with one key become one: the first, with the findings, the evidence and
\* the dependencies of all.
mergeDrafts(drafts) ==
  LET same(d) == {e \in ToSet(drafts) : e.key = d.key}
  IN Each(FirstOf(drafts, LAMBDA d, e : d.key = e.key), LAMBDA d :
       [d EXCEPT !.findings = UNION {e.findings : e \in same(d)},
                 !.evidence = UNION {e.evidence : e \in same(d)},
                 !.dependsOn = UNION {e.dependsOn : e \in same(d)}])

\* Mutant of resolvedDependencies: a missing dependency is kept.
EveryDependency(actions) == actions

\* A dependency on a key that no action has is dropped.
resolvedDependencies(actions) ==
  LET keys == {actions[k].key : k \in DOMAIN actions}
  IN [k \in DOMAIN actions |->
        [actions[k] EXCEPT !.dependsOn = (@ \cap keys) \ {actions[k].key}]]

\* The keys, each after those it depends on; shorter than the plan if there is a
\* cycle, and then the plan is refused.
topologicalOrder(actions) ==
  LET keys(I) == At([k \in DOMAIN actions |-> actions[k].key], I)
      released(done, n) ==
        {k \in DOMAIN actions : /\ done[n] \in actions[k].dependsOn
                               /\ actions[k].key \notin ToSet(done)
                               /\ actions[k].dependsOn \subseteq ToSet(done)}
      visited[n \in 0 .. Len(actions)] ==
        IF n = 0 THEN keys({k \in DOMAIN actions : actions[k].dependsOn = {}})
        ELSE IF n > Len(visited[n - 1]) THEN visited[n - 1]
        ELSE visited[n - 1] \o keys(released(visited[n - 1], n))
  IN visited[Len(actions)]

AUTOMATION_RANK == [BLOCKED |-> 0, UNKNOWN |-> 1, MANUAL |-> 2, REVIEW_REQUIRED |-> 3,
                    SAFE_AUTOMATIC |-> 4]
MIGRATION_STAGES ==
  <<"NETWORK_CONFIGURATION", "RPC_AND_EXPLORER", "TOKEN_MAPPINGS", "INFRASTRUCTURE_CONTRACTS",
    "ORACLES", "CROSS_CHAIN", "CONTRACT_CONFIGURATION", "FRONTEND_CONFIGURATION",
    "DEPLOYMENT_CONFIGURATION", "MANUAL_REVIEW">>
StageRank(stage) == CHOOSE n \in DOMAIN MIGRATION_STAGES : MIGRATION_STAGES[n] = stage

\* Actions of one rank are sorted by title; here they keep the order they came in.
orderActions(actions) ==
  SortedBy(actions, [k \in DOMAIN actions |->
                       100 * AUTOMATION_RANK[actions[k].automation] + StageRank(actions[k].stage)])

CountLevel(actions, level) == Cardinality({k \in DOMAIN actions : actions[k].automation = level})

determinePlanOutcome(actions) ==
  CASE CountLevel(actions, "BLOCKED") > 0 -> "BLOCKED"
    [] CountLevel(actions, "BLOCKED") = 0 /\ CountLevel(actions, "UNKNOWN") > 0 -> "NEEDS_VERIFICATION"
    [] CountLevel(actions, "BLOCKED") = 0 /\ CountLevel(actions, "UNKNOWN") = 0
         /\ CountLevel(actions, Review) + CountLevel(actions, "MANUAL") > 0 -> "REVIEW_REQUIRED"
    [] OTHER -> "READY_TO_APPLY"

autoFixablePercent(actions) ==
  LET actionable == Len(actions) - CountLevel(actions, "BLOCKED") - CountLevel(actions, "UNKNOWN")
  IN CASE Len(actions) = 0 -> 100
       [] Len(actions) > 0 /\ actionable <= 0 -> 0
       [] OTHER -> round(100 * CountLevel(actions, SafeAutomatic), actionable)

createMigrationPlan(context, findings) ==
  LET asked == Where(findings, LAMBDA f : f.status # "PASS")
      merged == mergeDrafts(Each(asked, LAMBDA f : createAction(f, context)))
      resolved == resolvedDependencies(merged)
      actions == orderActions(resolved)
  IN [actions |-> actions, order |-> topologicalOrder(resolved), outcome |-> determinePlanOutcome(actions),
      autoFixable |-> autoFixablePercent(actions)]
=============================================================================
