---------------------------- MODULE Compatibility ----------------------------
(***************************************************************************)
(* The compatibility engine: requirements against what is known of the     *)
(* target, as findings, a score and a verdict.                             *)
(*                                                                         *)
(* The title of a finding is the sentence it opens with and what that      *)
(* sentence is about: the wording is left out.                             *)
(***************************************************************************)
EXTENDS Scanner

\* An evaluated value: an environment assignment has a key, any other value None.
plain(value) == [key |-> None, value |-> value]

chainLabel(id) == IF id \in KnownIds THEN id \o " (name)" ELSE id

findingConfidence(r, provenance) ==
  CASE r.confidence = "UNKNOWN" \/ provenance = "UNKNOWN" -> "LOW"
    [] r.confidence = "LIKELY" \/ provenance = "DECLARED"  -> "MEDIUM"
    [] OTHER                                               -> "HIGH"

\* evaluation: r is the requirement's place in the analysis.
evaluation(rule, r, status, category, title, about, source, target, remediation, provenance) ==
  [ruleId |-> rule, requirement |-> r.id, status |-> status, category |-> category,
   title |-> title, about |-> about, source |-> source, target |-> target,
   remediation |-> remediation, evidence |-> r.evidence, requirementKey |-> r.key,
   confidence |-> IF status = "UNKNOWN" THEN "LOW" ELSE findingConfidence(r, provenance)]

isFrontend(r) == \E k \in DOMAIN r.evidence : "frontend" \in Files[r.evidence[k].file].traits

-----------------------------------------------------------------------------
(* The rules                                                               *)

chainIdRule(r, context) ==
  LET category == IF isFrontend(r) THEN "FRONTEND" ELSE "CONFIGURATION"
      result(status, title, remediation) ==
        evaluation("chain-id", r, status, category, title, "", plain(chainLabel(r.detected)),
                   context.targetChainId, remediation, "VERIFIED")
  IN CASE r.detected = context.targetChainId -> result("PASS", "matches target", "NONE")
       [] r.detected # context.sourceChainId -> result("WARNING", "source mismatch", "CONFIG_CHANGE")
       [] OTHER                              -> result("WARNING", "must be updated", "CONFIG_CHANGE")

\* The catalogued URL is looked for inside the one that was found.
hardcodedRpcRule(r, context) ==
  LET urls == context.snapshot.rpcUrls
      category == IF isFrontend(r) THEN "FRONTEND" ELSE "RPC"
      alreadyTarget == \E k \in DOMAIN urls : r.normalized \in {urls[k], redactSecretUrl(urls[k])}
      result(status, title, remediation) ==
        evaluation("hardcoded-rpc", r, status, category, title, "", plain(r.normalized), urls[1],
                   remediation, "VERIFIED")
  IN IF alreadyTarget THEN result("PASS", "points at target", "NONE")
     ELSE result("WARNING", "must be replaced", "CONFIG_CHANGE")

NETWORK_ENV == {"RPC", "CHAIN_ID", "EXPLORER", "NETWORK"}
TOKEN_ENV   == {"USDC", "USDT", "WETH", "LINK"}
ORACLE_ENV  == {"CHAINLINK"}

envConfigRule(r, context) ==
  LET key == r.detected
      source == IF r.normalized = "" THEN plain(key) ELSE [key |-> key, value |-> r.normalized]
      symbol == CHOOSE s \in TOKEN_ENV : Has(key, {s})
      token == lookupToken(context.snapshot, symbol)
      result(category, title, about, target, remediation, provenance) ==
        evaluation("env-config", r, "WARNING", category, title, about, source, target, remediation,
                   provenance)
  IN CASE Has(key, TOKEN_ENV) ->
            result("TOKENS", "env token", symbol,
                   IF token.address = None THEN token.availability ELSE token.address,
                   "ADDRESS_MAPPING", token.provenance)
       [] ~Has(key, TOKEN_ENV) /\ Has(key, ORACLE_ENV) /\ ~Has(key, NETWORK_ENV) ->
            result("ORACLES", "env oracle", "", None, "MANUAL_REVIEW", "DECLARED")
       [] OTHER ->
            result("CONFIGURATION", "env network", "",
                   IF Has(key, {"RPC"}) THEN context.snapshot.rpcUrls[1] ELSE context.targetChainId,
                   "CONFIG_CHANGE", "VERIFIED")

\* What every rule about a capability says of one that the target lacks or that
\* nothing is known of.
missing(rule, r, cap, category, about, source, likely) ==
  IF cap.availability = "UNAVAILABLE"
  THEN evaluation(rule, r, IF r.confidence = "DETECTED" THEN "BLOCKER" ELSE likely, category,
                  "unavailable", about, source, "UNAVAILABLE",
                  IF r.confidence = "DETECTED" THEN "INFRASTRUCTURE_REQUIRED" ELSE "MANUAL_REVIEW",
                  cap.provenance)
  ELSE evaluation(rule, r, "UNKNOWN", category, "unverified", about, source, "UNKNOWN", "UNKNOWN",
                  "UNKNOWN")

rpcCapabilityRule(r, context) ==
  LET cap == lookupRpcMethod(context.snapshot, r.normalized)
      source == plain(r.normalized)
  IN IF cap.availability = "AVAILABLE"
     THEN evaluation("rpc-capability", r, "PASS", "RPC", "available", r.normalized, source,
                     "AVAILABLE", "NONE", cap.provenance)
     ELSE missing("rpc-capability", r, cap, "RPC", r.normalized, source, "WARNING")

hardcoded(r) == r.detector = "addresses"

\* A contract with an address: the one in the repository is the target's, is to be
\* replaced by it, or cannot be told from it.
deployedRule(rule, r, cap, category, about, noAddress) ==
  LET result(status, title, target, remediation) ==
        evaluation(rule, r, status, category, title, about, plain(r.detected), target, remediation,
                   cap.provenance)
  IN CASE cap.availability # "AVAILABLE" ->
            missing(rule, r, cap, category, about, plain(r.detected), "WARNING")
       [] cap.availability = "AVAILABLE" /\ hardcoded(r) /\ cap.address \notin {None, r.detected} ->
            result("WARNING", "must be remapped", cap.address, "ADDRESS_MAPPING")
       [] cap.availability = "AVAILABLE" /\ hardcoded(r) /\ cap.address = None /\ noAddress = "WARNING" ->
            result("WARNING", "no target address", "AVAILABLE", "MANUAL_REVIEW")
       [] OTHER ->
            result("PASS", "available", IF cap.address = None THEN "AVAILABLE" ELSE cap.address, "NONE")

tokenAvailabilityRule(r, context) ==
  deployedRule("token-availability", r, lookupToken(context.snapshot, r.key), "TOKENS", r.key, "WARNING")

\* A missing address passes.
infrastructureContractRule(r, context) ==
  deployedRule("infrastructure-contract", r, lookupProtocol(context.snapshot, r.key), "CONTRACTS",
               r.key, "PASS")

\* No detector names a price feed, so the branch for one is left out.
chainlinkResult(r, context) ==
  deployedRule("oracle-availability", r, lookupProtocol(context.snapshot, "CHAINLINK"), "ORACLES",
               "Chainlink", "WARNING")

\* The router in the repository is not compared with the target's.
oracleAvailabilityRule(r, context) ==
  LET cap == lookupProtocol(context.snapshot, "CHAINLINK_FUNCTIONS")
  IN CASE r.key = "CHAINLINK" -> chainlinkResult(r, context)
       [] r.key = "CHAINLINK_FUNCTIONS" /\ cap.availability = "AVAILABLE" ->
            evaluation("oracle-availability", r, "PASS", "ORACLES", "available", "Functions",
                       plain(r.detected), IF cap.address = None THEN "AVAILABLE" ELSE cap.address,
                       "NONE", cap.provenance)
       [] OTHER -> missing("oracle-availability", r, cap, "ORACLES", "Functions", plain(r.detected),
                           "WARNING")

uniswapRule(r, context) ==
  LET cap == lookupProtocol(context.snapshot, r.key)
  IN IF cap.availability = "AVAILABLE"
     THEN evaluation("uniswap", r, "PASS", "PROTOCOLS", "available", r.key, plain(r.key),
                     "AVAILABLE", "NONE", cap.provenance)
     ELSE missing("uniswap", r, cap, "PROTOCOLS", r.key, plain(r.key), "UNKNOWN")

layerZeroRule(r, context) ==
  LET cap == lookupProtocol(context.snapshot, "LAYERZERO")
  IN IF cap.availability = "AVAILABLE"
     THEN evaluation("layerzero", r, "PASS", "CROSS_CHAIN", "available", "LAYERZERO",
                     plain("LAYERZERO"), "AVAILABLE", "NONE", cap.provenance)
     ELSE missing("layerzero", r, cap, "CROSS_CHAIN", "LAYERZERO", plain("LAYERZERO"), "WARNING")

projectDeploymentRule(r, context) ==
  evaluation("project-deployment", r, "WARNING", "CONFIGURATION", "must be redeployed", r.normalized,
             plain(r.detected), None, "CONFIG_CHANGE", "DECLARED")

hardcodedAddressRule(r, context) ==
  evaluation("hardcoded-address", r, "UNKNOWN", "CONTRACTS", "not identified", r.detected,
             plain(r.detected), None, "UNKNOWN", "UNKNOWN")

unmappedRequirementRule(r, context) ==
  LET category == CASE r.category = "TOKEN" -> "TOKENS" [] r.category = "ORACLE" -> "ORACLES"
                    [] r.category = "PROTOCOL" -> "PROTOCOLS"
                    [] r.category \in {"CROSS_CHAIN", "RPC", "FRONTEND"} -> r.category
                    [] OTHER -> "CONFIGURATION"
  IN evaluation("unmapped-requirement", r, "UNKNOWN", category, "not evaluated", r.key,
                plain(r.detected), None, "UNKNOWN", "UNKNOWN")

\* The first rule of COMPATIBILITY_RULES that supports the requirement.
Evaluate(r, context) ==
  CASE r.key = "HARDCODED_CHAIN_ID" -> chainIdRule(r, context)
    [] r.key = "ENV_KEY" /\ Has(r.detected, NETWORK_ENV \cup TOKEN_ENV \cup ORACLE_ENV) ->
         envConfigRule(r, context)
    [] r.key = "RPC_URL"            -> hardcodedRpcRule(r, context)
    [] r.key = "RPC_METHOD"         -> rpcCapabilityRule(r, context)
    [] r.key \in TOKEN_KEYS         -> tokenAvailabilityRule(r, context)
    [] r.key \in {"CHAINLINK", "CHAINLINK_FUNCTIONS"} -> oracleAvailabilityRule(r, context)
    [] r.key \in {"PERMIT2", "SAFE"} -> infrastructureContractRule(r, context)
    [] r.key \in {"UNISWAP_V2", "UNISWAP_V3", "UNISWAP_V4"} -> uniswapRule(r, context)
    [] r.key = "LAYERZERO"          -> layerZeroRule(r, context)
    [] r.key = "PROJECT_DEPLOYMENT" -> projectDeploymentRule(r, context)
    [] r.key = "UNKNOWN_EVM_ADDRESS" -> hardcodedAddressRule(r, context)
    [] OTHER                        -> unmappedRequirementRule(r, context)

-----------------------------------------------------------------------------
(* evaluateCompatibility                                                   *)

SKIP_KEYS == {"SOLIDITY_PRAGMA", "SOLIDITY_IMPORT", "FOUNDRY", "HARDHAT", "NEXTJS", "VIEM",
              "WAGMI", "ETHERS"}
SKIP_ENV_KEYS == {"PRIVATE_KEY", "API_KEY", "DECIMALS", "DATABASE", "JWT", "PASSWORD", "MNEMONIC"}

shouldSkipRequirement(r) ==
  \/ r.category = "FRAMEWORK"
  \/ r.key \in SKIP_KEYS
  \/ r.key = "ENV_KEY" /\ Has(r.detected, SKIP_ENV_KEYS)
  \/ /\ r.key = "UNKNOWN_EVM_ADDRESS"
     /\ \A k \in DOMAIN r.evidence :
          Files[r.evidence[k].file].traits \cap {"noise", "tests", "fixtures"} # {}
  \/ r.key = "RPC_METHOD" /\ r.normalized \in STANDARD_RPC_METHODS

evmSolidityPass(context) ==
  [ruleId |-> "framework-compatibility", requirement |-> 0, status |-> "PASS",
   category |-> "CONTRACTS", title |-> "EVM-compatible", about |-> "", source |-> plain("solidity"),
   target |-> "evm", remediation |-> "NONE", evidence |-> <<>>, requirementKey |-> None,
   confidence |-> "HIGH"]

\* Mutant of SameFinding: one finding per rule and category.
SameRule(f, g) == f.ruleId = g.ruleId /\ f.category = g.category

SameFinding(f, g) ==
  /\ f.ruleId = g.ruleId /\ f.status = g.status /\ f.category = g.category
  /\ f.title = g.title /\ f.about = g.about /\ f.source = g.source

\* The first of the findings that say the same thing is kept, with its evidence.
dedupeFindings(findings) == FirstOf(findings, SameFinding)

With(findings, status) == {k \in DOMAIN findings : findings[k].status = status}

Count(findings, status) == Cardinality(With(findings, status))

-----------------------------------------------------------------------------
(* scoreFindings: weights and scores are rounded as the code does, in      *)
(* hundredths and thousandths.                                             *)

COMPATIBILITY_CATEGORIES == {"CONTRACTS", "RPC", "TOKENS", "ORACLES", "PROTOCOLS", "CROSS_CHAIN",
                             "FRONTEND", "CONFIGURATION"}

SOLO_WEIGHTS == [c \in COMPATIBILITY_CATEGORIES |->
                   CASE c = "RPC" -> 20 [] c \in {"PROTOCOLS", "CROSS_CHAIN"} -> 10 [] OTHER -> 15]

round(n, d) == (2 * n + d) \div (2 * d)

Of(findings, category) == {k \in DOMAIN findings : findings[k].category = category}

applicable(findings) == {c \in COMPATIBILITY_CATEGORIES : Of(findings, c) # {}}
scoredCategories(findings) ==
  {c \in COMPATIBILITY_CATEGORIES : Of(findings, c) \ With(findings, "UNKNOWN") # {}}

baseWeight(category, findings) ==
  IF {"FRONTEND", "CONFIGURATION"} \subseteq applicable(findings)
  THEN CASE category = "FRONTEND" -> 8 [] category = "CONFIGURATION" -> 7 [] OTHER -> SOLO_WEIGHTS[category]
  ELSE SOLO_WEIGHTS[category]

categoryScore(category, findings) ==
  LET count(status) == Cardinality(Of(findings, category) \cap With(findings, status))
      known == Cardinality(Of(findings, category)) - count("UNKNOWN")
  IN round(1000 * count("PASS") + 700 * count("WARNING"), known)

scoreFindings(findings) ==
  LET scored == scoredCategories(findings)
      weightSum == SumFunction([c \in scored |-> baseWeight(c, findings)])
      weight(c) == round(10000 * baseWeight(c, findings), weightSum)
      total == Len(findings)
  IN [score |-> CASE scored # {} ->
                       round(SumFunction([c \in scored |-> weight(c) * categoryScore(c, findings)]), 100000)
                  [] scored = {} /\ total > 0 -> 0
                  [] OTHER -> 100,
      coverage |-> IF total = 0 THEN 100 ELSE round(100 * (total - Count(findings, "UNKNOWN")), total)]

determineReadiness(findings, coverage) ==
  CASE Count(findings, "BLOCKER") > 0 -> "BLOCKED"
    [] Count(findings, "BLOCKER") = 0 /\ Count(findings, "UNKNOWN") > 0 /\ coverage < 50 ->
         "INSUFFICIENT_DATA"
    [] Count(findings, "BLOCKER") = 0 /\ Count(findings, "WARNING") > 0
         /\ ~(Count(findings, "UNKNOWN") > 0 /\ coverage < 50) -> "REVIEW_REQUIRED"
    [] Count(findings, "BLOCKER") = 0 /\ Count(findings, "WARNING") = 0
         /\ Count(findings, "UNKNOWN") > 0 -> "INSUFFICIENT_DATA"
    [] OTHER -> "READY"

evaluateCompatibility(context, requirements, hasSolidity) ==
  LET asked == Where(requirements, LAMBDA r : ~shouldSkipRequirement(r))
      found == [k \in DOMAIN asked |-> Evaluate(asked[k], context)]
      passes == \E k \in DOMAIN found : found[k].category = "CONTRACTS" /\ found[k].status = "PASS"
      unique == dedupeFindings(IF hasSolidity /\ ~passes THEN Append(found, evmSolidityPass(context))
                               ELSE found)
      scored == scoreFindings(unique)
  IN [findings |-> unique, score |-> scored.score, coverage |-> scored.coverage,
      readiness |-> determineReadiness(unique, scored.coverage)]
=============================================================================
