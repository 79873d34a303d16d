--------------------------- MODULE PipelineProofs ---------------------------
(***************************************************************************)
(* Proofs about the engines, for every inventory of files, every           *)
(* repository of finitely many lines, every pair of chains and every set   *)
(* of detectors that may throw.  The invariant is PipelineInv: what is     *)
(* stored between two engines is what the next one expects.  The engines   *)
(* come first, in the order in which a repository meets them.              *)
(***************************************************************************)
EXTENDS PipelineProperties, ListProofs

-----------------------------------------------------------------------------
(* The scanner returns lists                                               *)

\* A text for each of Files.
Shape(texts) == DOMAIN texts = DOMAIN Files /\ \A i \in DOMAIN texts : IsList(texts[i])

LEMMA FilesAreListed == IsList(Files)
BY RepositoriesAssumption DEF IsList

LEMMA AnalyzedIs == IsList(Analyzed) /\ ToSet(Analyzed) \subseteq DOMAIN Files
<1> DEFINE all == [i \in DOMAIN Files |-> i]
           Kept == {k \in DOMAIN all : \E e \in ToSet(inventoryRepository.files) :
                                         e.file = all[k] /\ e.analyzed}
<1>1. IsList(all) /\ DOMAIN all = DOMAIN Files
  BY FilesAreListed, MappedIs
<1>2. IsList(At(all, Kept)) /\ ToSet(At(all, Kept)) = {all[k] : k \in Kept}
  BY <1>1, AtIs
<1>3. \A k \in Kept : all[k] \in DOMAIN Files
  OBVIOUS
<1>4. Analyzed = At(all, Kept)
  BY DEF Analyzed, Where
<1> QED BY <1>2, <1>3, <1>4

LEMMA LinesAreListed ==
  ASSUME NEW texts, Shape(texts), NEW files, IsList(files), ToSet(files) \subseteq DOMAIN Files,
         NEW kinds
  PROVE  IsList(LinesOf(texts, files, kinds))
<1> DEFINE hits(i) == [n \in DOMAIN texts[i] |-> [file |-> i, at |-> n, line |-> texts[i][n]]]
           Kept(i) == {n \in DOMAIN hits(i) : hits(i)[n].line.kind \in kinds}
           ls == [k \in DOMAIN files |-> At(hits(files[k]), Kept(files[k]))]
<1>1. ASSUME NEW i \in DOMAIN Files PROVE IsList(At(hits(i), Kept(i)))
  <2>1. IsList(texts[i])
    BY DEF Shape
  <2>2. IsList(hits(i))
    BY <2>1, MappedIs
  <2> QED BY <2>2, AtIs
<1>2. IsList(ls) /\ DOMAIN ls = DOMAIN files
  BY MappedIs
<1>3. \A k \in DOMAIN files : files[k] \in DOMAIN Files
  BY DEF ToSet
<1>4. LinesOf(texts, files, kinds) = FlattenSeq(ls)
  BY DEF LinesOf, Where
<1>5. \A k \in DOMAIN ls : IsList(ls[k])
  BY <1>1, <1>3
<1> HIDE DEF ls
<1> QED BY <1>2, <1>4, <1>5, FlattenedIs

\* Whatever is filtered from a list and mapped is a list.
LEMMA Filtered ==
  ASSUME NEW l, IsList(l), NEW I \in SUBSET DOMAIN l, NEW s, s = [k \in DOMAIN At(l, I) |-> s[k]]
  PROVE  IsList(s)
BY AtIs, MappedIs

LEMMA LinesRead ==
  ASSUME NEW texts, Shape(texts), NEW kinds, NEW I \in SUBSET DOMAIN Analyzed
  PROVE  IsList(LinesOf(texts, At(Analyzed, I), kinds))
<1>1. IsList(At(Analyzed, I)) /\ ToSet(At(Analyzed, I)) = {Analyzed[k] : k \in I}
  BY AnalyzedIs, AtIs
<1>2. ToSet(At(Analyzed, I)) \subseteq DOMAIN Files
  BY <1>1, AnalyzedIs DEF ToSet
<1> QED BY <1>1, <1>2, LinesAreListed

LEMMA ManifestLines ==
  ASSUME NEW texts, Shape(texts), NEW kinds PROVE IsList(Hits(texts, IsManifest, kinds))
<1> DEFINE I == {k \in DOMAIN Analyzed : IsManifest(Files[Analyzed[k]])}
<1>1. Hits(texts, IsManifest, kinds) = LinesOf(texts, At(Analyzed, I), kinds)
  BY DEF Hits, Where
<1> QED BY <1>1, LinesRead

LEMMA SolidityLines ==
  ASSUME NEW texts, Shape(texts), NEW kinds PROVE IsList(Hits(texts, IsSolidity, kinds))
<1> DEFINE I == {k \in DOMAIN Analyzed : IsSolidity(Files[Analyzed[k]])}
<1>1. Hits(texts, IsSolidity, kinds) = LinesOf(texts, At(Analyzed, I), kinds)
  BY DEF Hits, Where
<1> QED BY <1>1, LinesRead

\* The hits of a detector, filtered, each a draft.
LEMMA packagesAreListed ==
  ASSUME NEW texts, Shape(texts) PROVE IsList(detectPackages(texts))
<1> DEFINE hits == Hits(texts, IsManifest, {"package"})
           I == {k \in DOMAIN hits : hits[k].line.name \in {"viem", "ethers", "wagmi"}}
<1>1. IsList(hits)
  BY ManifestLines
<1>2. detectPackages(texts) = [k \in DOMAIN At(hits, I) |-> detectPackages(texts)[k]]
  BY DEF detectPackages, Each, Where
<1> HIDE DEF hits
<1> QED BY <1>1, <1>2, Filtered

LEMMA frontendIsListed ==
  ASSUME NEW texts, Shape(texts) PROVE IsList(detectFrontend(texts))
<1> DEFINE hits == Hits(texts, IsManifest, {"package"})
           I == {k \in DOMAIN hits : hits[k].line.name = "next"}
           next == [k \in DOMAIN At(hits, I) |-> detectFrontend(texts)[k]]
<1>1. IsList(hits)
  BY ManifestLines
<1>2. detectFrontend(texts) = next \/ detectFrontend(texts) = <<>>
  BY DEF detectFrontend, Each, Where
<1>3. next = [k \in DOMAIN At(hits, I) |-> next[k]]
  OBVIOUS
<1> HIDE DEF hits, next
<1>4. IsList(next) /\ IsList(<<>>)
  BY <1>1, <1>3, Filtered DEF IsList
<1> QED BY <1>2, <1>4

LEMMA solidityIsListed ==
  ASSUME NEW texts, Shape(texts) PROVE IsList(detectSolidity(texts))
<1> DEFINE hits == Hits(texts, IsSolidity, {"import"})
<1>1. IsList(hits)
  BY SolidityLines
<1>2. detectSolidity(texts) = [k \in DOMAIN hits |-> detectSolidity(texts)[k]]
  BY DEF detectSolidity, Each
<1> HIDE DEF hits
<1> QED BY <1>1, <1>2, MappedIs

LEMMA chainIdsAreListed ==
  ASSUME NEW texts, Shape(texts) PROVE IsList(detectChainIds(texts))
<1> DEFINE reads(f) == ~("tests" \in f.traits) /\
                         \/ f.path = "foundry.toml"
                         \/ f.category \in Scripts /\ "config" \in f.traits
                         \/ f.category = "JSON"
           named(h) == CASE Files[h.file].path = "foundry.toml" -> h.line.name = "default"
                         [] Files[h.file].category = "JSON"     -> h.line.name = "chainId"
                         [] OTHER -> h.line.name \in {"chainId", "chain_id", "id"}
           hits == LinesOf(texts, At(Analyzed, {k \in DOMAIN Analyzed : reads(Files[Analyzed[k]])}),
                           {"chainId"})
           I == {k \in DOMAIN hits : named(hits[k]) /\ hits[k].line.value \in KnownIds}
<1>1. IsList(hits)
  BY LinesRead
<1>2. detectChainIds(texts) = [k \in DOMAIN At(hits, I) |-> detectChainIds(texts)[k]]
  BY DEF detectChainIds, Each, Where, Hits
<1> HIDE DEF hits
<1> QED BY <1>1, <1>2, Filtered

LEMMA MergedIs ==
  ASSUME NEW drafts, IsList(drafts) PROVE IsList(Merge(drafts))
<1> DEFINE I == {k \in DOMAIN drafts : \A j \in 1 .. k - 1 : ~ (drafts[j].key = drafts[k].key)}
<1>1. Merge(drafts) = [k \in DOMAIN At(drafts, I) |-> Merge(drafts)[k]]
  BY DEF Merge, Each, FirstOf
<1> QED BY <1>1, Filtered

LEMMA addressesAreListed ==
  ASSUME NEW texts, Shape(texts) PROVE IsList(detectAddresses(texts))
<1> DEFINE reads(f) == f.category \notin {"MARKDOWN", "ENV_TEMPLATE"} /\ ~("noise" \in f.traits)
           first(h) == \A n \in 1 .. h.at - 1 :
                         ~(texts[h.file][n].kind = "address" /\ texts[h.file][n].value = h.line.value)
           bound(h) == IF Files[h.file].category \in Scripts \cup {"SOLIDITY", "JSON"}
                       THEN h.line.name ELSE ""
           semantic(h) == classifyAddressContext(h.line.value, bound(h))
           lines == LinesOf(texts, At(Analyzed, {k \in DOMAIN Analyzed : reads(Files[Analyzed[k]])}),
                            {"address"})
           hits == At(lines, {k \in DOMAIN lines : first(lines[k])})
           drafts == [k \in DOMAIN hits |->
                        [key |-> <<semantic(hits[k]).kind, semantic(hits[k]).name>>,
                         draft |-> addressDraft(semantic(hits[k]), hits[k].line.value,
                                                <<evidence(hits[k].file, hits[k].at)>>)]]
<1>1. detectAddresses(texts) = Merge(drafts)
  BY DEF detectAddresses, Each, Where, Hits
<1>2. IsList(lines)
  BY LinesRead
<1> HIDE DEF lines
<1>3. IsList(hits)
  BY <1>2, AtIs
<1> HIDE DEF hits
<1>4. IsList(drafts)
  BY <1>3, MappedIs
<1> HIDE DEF drafts
<1> QED BY <1>1, <1>4, MergedIs

LEMMA protocolsAreListed ==
  ASSUME NEW texts, Shape(texts) PROVE IsList(detectProtocols(texts))
<1> DEFINE lines == Hits(texts, IsSolidity, {"import"}) \o Hits(texts, IsManifest, {"package"})
           uses(key) == At(lines, {k \in DOMAIN lines : lines[k].line.value = key})
           I == {k \in DOMAIN ProtocolKeys : uses(ProtocolKeys[k]) # <<>>}
<1>1. detectProtocols(texts) = [k \in DOMAIN At(ProtocolKeys, I) |-> detectProtocols(texts)[k]]
  BY DEF detectProtocols, Each, Where
<1>2. IsList(ProtocolKeys)
  <2>1. ProtocolKeys \in Seq({"CHAINLINK", "CHAINLINK_FUNCTIONS", "UNISWAP_V3", "UNISWAP_V2",
                             "LAYERZERO", "SAFE", "PERMIT2"})
    BY DEF ProtocolKeys
  <2> QED BY <2>1, SequencesAreLists
<1> QED BY <1>1, <1>2, Filtered

LEMMA rpcIsListed ==
  ASSUME NEW texts, Shape(texts) PROVE IsList(detectRpc(texts))
<1> DEFINE reads(f) == f.category \in Scripts \cup {"JSON"} /\ ~("tests" \in f.traits)
           script(f) == reads(f) /\ f.category \in Scripts
           found == LinesOf(texts, At(Analyzed, {k \in DOMAIN Analyzed : reads(Files[Analyzed[k]])}),
                            {"method"})
           endpoints == LinesOf(texts, At(Analyzed, {k \in DOMAIN Analyzed : script(Files[Analyzed[k]])}),
                                {"rpcUrl"})
           methods == [k \in DOMAIN found |->
                         requirement("RPC", "RPC_METHOD", "rpc", found[k].line.value,
                                     found[k].line.value, "DETECTED",
                                     <<evidence(found[k].file, found[k].at)>>)]
           once == At(methods, {k \in DOMAIN methods :
                                  \A j \in 1 .. k - 1 : ~ (methods[j].detected = methods[k].detected)})
           urls == [k \in DOMAIN endpoints |->
                      requirement("RPC", "RPC_URL", "rpc", redactSecretUrl(endpoints[k].line.value),
                                  redactSecretUrl(endpoints[k].line.value), "DETECTED",
                                  <<evidence(endpoints[k].file, endpoints[k].at)>>)]
<1>1. detectRpc(texts) = once \o urls
  BY DEF detectRpc, Each, Hits, Where, FirstOf
<1>2. IsList(found) /\ IsList(endpoints)
  BY LinesRead
<1> HIDE DEF found, endpoints
<1>3. IsList(methods) /\ IsList(urls)
  BY <1>2, MappedIs
<1> HIDE DEF methods, urls
<1>4. IsList(once)
  BY <1>3, AtIs
<1> HIDE DEF once
<1> QED BY <1>1, <1>3, <1>4, ListConcat

LEMMA envIsListed ==
  ASSUME NEW texts, Shape(texts) PROVE IsList(detectEnv(texts))
<1> DEFINE template(f) == f.category = "ENV_TEMPLATE"
           hits == LinesOf(texts, At(Analyzed, {k \in DOMAIN Analyzed : template(Files[Analyzed[k]])}),
                           {"env"})
           I == {k \in DOMAIN hits : /\ Has(hits[k].line.name, INTERESTING)
                                     /\ ~Has(hits[k].line.name, NON_NETWORK)}
<1>1. IsList(hits)
  BY LinesRead
<1>2. detectEnv(texts) = [k \in DOMAIN At(hits, I) |-> detectEnv(texts)[k]]
  BY DEF detectEnv, Each, Where, Hits
<1> HIDE DEF hits
<1> QED BY <1>1, <1>2, Filtered

LEMMA frameworksAreListed ==
  ASSUME NEW texts PROVE IsList(detectFrameworks(texts))
<1>1. \A x : IsList(<<x>>) /\ IsList(<<>>)
  BY DEF IsList, ToSet
<1>2. \E s, t : detectFrameworks(texts) = s \o t /\ IsList(s) /\ IsList(t)
  BY <1>1 DEF detectFrameworks
<1> QED BY <1>2, ListConcat

\* Whatever detectors throw, the requirements are a list.
LEMMA AnalysisIsListed ==
  ASSUME NEW texts, Shape(texts), NEW broken
  PROVE  IsList(Identified(analyzeRepository(texts, broken)))
<1> DEFINE ls == [k \in DOMAIN Detectors |->
                    IF Detectors[k] \in broken THEN <<>> ELSE detect(Detectors[k], texts)]
<1>1. DOMAIN Detectors = 1 .. 9 /\ IsList(Detectors)
  <2>1. /\ Detectors \in Seq({"framework", "packages", "frontend", "solidity", "chain-id",
                             "addresses", "protocols", "rpc", "env"})
        /\ Len(Detectors) = 9
    BY DEF Detectors
  <2> QED BY <2>1, SequencesAreLists
<1>2. \A k \in DOMAIN Detectors : IsList(detect(Detectors[k], texts))
  <2>1. \A k \in 1 .. 9 : Detectors[k] \in {"framework", "packages", "frontend", "solidity", "chain-id",
                                            "addresses", "protocols", "rpc", "env"}
    BY DEF Detectors
  <2>2. \A d \in {"framework", "packages", "frontend", "solidity", "chain-id", "addresses",
                  "protocols", "rpc", "env"} : IsList(detect(d, texts))
    BY frameworksAreListed, packagesAreListed, frontendIsListed, solidityIsListed, chainIdsAreListed,
       addressesAreListed, protocolsAreListed, rpcIsListed, envIsListed DEF detect
  <2> QED BY <1>1, <2>1, <2>2
<1>3. \A k \in DOMAIN ls : IsList(ls[k])
  <2>1. IsList(<<>>)
    BY DEF IsList
  <2> QED BY <1>2, <2>1
<1>4. IsList(ls)
  BY <1>1, MappedIs
<1> HIDE DEF ls
<1>5. IsList(FlattenSeq(ls))
  BY <1>3, <1>4, FlattenedIs
<1>6. analyzeRepository(texts, broken) = FlattenSeq(ls)
  BY DEF analyzeRepository, ls
<1>7. \A s : Identified(s) = [k \in DOMAIN s |-> Identified(s)[k]]
  BY DEF Identified
<1> QED BY <1>5, <1>6, <1>7, MappedIs

-----------------------------------------------------------------------------
(* What a finding says                                                     *)

Statuses == {"PASS", "WARNING", "BLOCKER", "UNKNOWN"}

\* The rules of which a finding may be an action of its own.
PlannedRules == {"chain-id", "hardcoded-rpc", "env-config", "token-availability",
                 "infrastructure-contract", "uniswap", "oracle-availability", "rpc-capability",
                 "layerzero", "project-deployment", "hardcoded-address"}

\* The target of a token's finding, from what the finding says.
TokenTarget(f, c) ==
  LET address == lookupToken(c.snapshot, f.about).address
  IN CASE f.title = "unavailable"       -> "UNAVAILABLE"
       [] f.title = "unverified"        -> "UNKNOWN"
       [] f.title = "must be remapped"  -> address
       [] f.title = "no target address" -> "AVAILABLE"
       [] OTHER                         -> IF address = None THEN "AVAILABLE" ELSE address

\* Every finding of the engine: what is not in what it says follows from it.
Finding(f, c) ==
  /\ f.status \in Statuses /\ f.category \in COMPATIBILITY_CATEGORIES
  /\ f.ruleId \in {"chain-id", "hardcoded-rpc", "env-config", "project-deployment"} =>
       f.status \in {"PASS", "WARNING"}
  /\ f.ruleId = "hardcoded-address" => f.status = "UNKNOWN"
  /\ f.ruleId \notin PlannedRules => f.status \in {"PASS", "UNKNOWN"}
  /\ f.ruleId \in {"infrastructure-contract", "uniswap"} => f.requirementKey = f.about
  /\ f.ruleId = "token-availability" => f.target = TokenTarget(f, c)

LEMMA MissingIs ==
  ASSUME NEW rule, NEW r, NEW cap, NEW category, NEW about, NEW source, NEW likely
  PROVE  LET f == missing(rule, r, cap, category, about, source, likely)
         IN /\ f.ruleId = rule /\ f.category = category /\ f.about = about /\ f.source = source
            /\ f.requirementKey = r.key
            /\ \/ f.title = "unavailable" /\ f.target = "UNAVAILABLE" /\ f.status \in {"BLOCKER", likely}
               \/ f.title = "unverified" /\ f.target = "UNKNOWN" /\ f.status = "UNKNOWN"
BY DEF missing, evaluation

\* What the rules about a contract with an address say.
OfContract(f, rule, r, cap, category, about) ==
  /\ f.ruleId = rule /\ f.category = category /\ f.about = about
  /\ f.requirementKey = r.key /\ f.status \in Statuses
  /\ f.target = CASE f.title = "unavailable"       -> "UNAVAILABLE"
                  [] f.title = "unverified"        -> "UNKNOWN"
                  [] f.title = "must be remapped"  -> cap.address
                  [] f.title = "no target address" -> "AVAILABLE"
                  [] OTHER -> IF cap.address = None THEN "AVAILABLE" ELSE cap.address

LEMMA DeployedIs ==
  ASSUME NEW rule, NEW r, NEW cap, NEW category, NEW about, NEW noAddress
  PROVE  OfContract(deployedRule(rule, r, cap, category, about, noAddress), rule, r, cap, category, about)
<1>1. CASE cap.availability # "AVAILABLE"
  <2>1. deployedRule(rule, r, cap, category, about, noAddress) =
          missing(rule, r, cap, category, about, plain(r.detected), "WARNING")
    BY <1>1 DEF deployedRule
  <2> DEFINE f == missing(rule, r, cap, category, about, plain(r.detected), "WARNING")
  <2>2. /\ f.ruleId = rule /\ f.category = category /\ f.about = about /\ f.requirementKey = r.key
        /\ \/ f.title = "unavailable" /\ f.target = "UNAVAILABLE" /\ f.status \in {"BLOCKER", "WARNING"}
           \/ f.title = "unverified" /\ f.target = "UNKNOWN" /\ f.status = "UNKNOWN"
    BY MissingIs
  <2> HIDE DEF f
  <2> QED BY <2>1, <2>2 DEF Statuses, f, OfContract
<1>2. CASE cap.availability = "AVAILABLE"
  BY <1>2 DEF deployedRule, evaluation, Statuses, OfContract
<1> QED BY <1>1, <1>2

LEMMA EvaluationIsFinding ==
  ASSUME NEW r, NEW c PROVE Finding(Evaluate(r, c), c)
<1> USE DEF Statuses, PlannedRules, COMPATIBILITY_CATEGORIES
<1>1. Finding(chainIdRule(r, c), c)
  BY DEF chainIdRule, evaluation, Finding
<1>2. Finding(hardcodedRpcRule(r, c), c)
  BY DEF hardcodedRpcRule, evaluation, Finding
<1>3. Finding(envConfigRule(r, c), c)
  BY DEF envConfigRule, evaluation, Finding
<1>4. Finding(rpcCapabilityRule(r, c), c)
  <2> DEFINE cap == lookupRpcMethod(c.snapshot, r.normalized)
  <2>1. CASE cap.availability = "AVAILABLE"
    BY <2>1 DEF rpcCapabilityRule, evaluation, Finding
  <2>2. CASE cap.availability # "AVAILABLE"
    BY <2>2, MissingIs DEF rpcCapabilityRule, Finding
  <2> QED BY <2>1, <2>2
<1>5. Finding(tokenAvailabilityRule(r, c), c)
  <2> DEFINE f == tokenAvailabilityRule(r, c)
             cap == lookupToken(c.snapshot, r.key)
  <2>1. OfContract(f, "token-availability", r, cap, "TOKENS", r.key)
    BY DeployedIs DEF tokenAvailabilityRule
  <2> HIDE DEF f
  <2>2. f.target = TokenTarget(f, c)
    BY <2>1 DEF TokenTarget, OfContract
  <2>3. Finding(f, c)
    BY <2>1, <2>2 DEF Finding, OfContract
  <2> QED BY <2>3 DEF f
<1>6. Finding(infrastructureContractRule(r, c), c)
  <2> DEFINE f == infrastructureContractRule(r, c)
             cap == lookupProtocol(c.snapshot, r.key)
  <2>1. OfContract(f, "infrastructure-contract", r, cap, "CONTRACTS", r.key)
    BY DeployedIs DEF infrastructureContractRule
  <2> HIDE DEF f
  <2>2. Finding(f, c)
    BY <2>1 DEF Finding, OfContract
  <2> QED BY <2>2 DEF f
<1>7. Finding(oracleAvailabilityRule(r, c), c)
  <2> DEFINE cap == lookupProtocol(c.snapshot, "CHAINLINK_FUNCTIONS")
             functions == missing("oracle-availability", r, cap, "ORACLES", "Functions",
                                  plain(r.detected), "WARNING")
  <2>1. Finding(chainlinkResult(r, c), c)
    <3> DEFINE f == chainlinkResult(r, c)
               feeds == lookupProtocol(c.snapshot, "CHAINLINK")
    <3>1. OfContract(f, "oracle-availability", r, feeds, "ORACLES", "Chainlink")
      BY DeployedIs DEF chainlinkResult
    <3> HIDE DEF f
    <3>2. Finding(f, c)
      BY <3>1 DEF Finding, OfContract
    <3> QED BY <3>2 DEF f
  <2>2. Finding(functions, c)
    BY MissingIs DEF Finding
  <2>3. CASE r.key = "CHAINLINK"
    BY <2>1, <2>3 DEF oracleAvailabilityRule
  <2>4. CASE r.key # "CHAINLINK" /\ r.key = "CHAINLINK_FUNCTIONS" /\ cap.availability = "AVAILABLE"
    BY <2>4 DEF oracleAvailabilityRule, evaluation, Finding
  <2>5. CASE r.key # "CHAINLINK" /\ ~ (r.key = "CHAINLINK_FUNCTIONS" /\ cap.availability = "AVAILABLE")
    BY <2>2, <2>5 DEF oracleAvailabilityRule
  <2> QED BY <2>3, <2>4, <2>5
<1>8. Finding(uniswapRule(r, c), c)
  <2> DEFINE cap == lookupProtocol(c.snapshot, r.key)
  <2>1. CASE cap.availability = "AVAILABLE"
    BY <2>1 DEF uniswapRule, evaluation, Finding
  <2>2. CASE cap.availability # "AVAILABLE"
    BY <2>2, MissingIs DEF uniswapRule, Finding
  <2> QED BY <2>1, <2>2
<1>9. Finding(layerZeroRule(r, c), c)
  <2> DEFINE cap == lookupProtocol(c.snapshot, "LAYERZERO")
  <2>1. CASE cap.availability = "AVAILABLE"
    BY <2>1 DEF layerZeroRule, evaluation, Finding
  <2>2. CASE cap.availability # "AVAILABLE"
    BY <2>2, MissingIs DEF layerZeroRule, Finding
  <2> QED BY <2>1, <2>2
<1>10. Finding(projectDeploymentRule(r, c), c)
  BY DEF projectDeploymentRule, evaluation, Finding
<1>11. Finding(hardcodedAddressRule(r, c), c)
  BY DEF hardcodedAddressRule, evaluation, Finding
<1>12. Finding(unmappedRequirementRule(r, c), c)
  BY DEF unmappedRequirementRule, evaluation, Finding
<1> QED BY <1>1, <1>2, <1>3, <1>4, <1>5, <1>6, <1>7, <1>8, <1>9, <1>10, <1>11, <1>12 DEF Evaluate

LEMMA EvmPassIsFinding == ASSUME NEW c PROVE Finding(evmSolidityPass(c), c)
BY DEF evmSolidityPass, Finding, Statuses, PlannedRules, COMPATIBILITY_CATEGORIES

-----------------------------------------------------------------------------
(* What an action is                                                       *)

\* The automation of an action, from its key.
Automation(key, c) ==
  CASE key[1] \in {"chain-id", "frontend-chain-id"} -> SafeAutomatic
    [] key[1] \in {"rpc-url", "frontend-rpc"} ->
         IF Len(c.snapshot.rpcUrls) = 1 THEN SafeAutomatic ELSE Review
    [] key[1] = "env" ->
         IF Has(key[2], NAMED_NETWORKS) /\ ~Has(key[2], {EnvName(c.targetChainKey)})
         THEN Review ELSE SafeAutomatic
    [] key[1] \in {"unknown-address", "unknown"} -> "UNKNOWN"
    [] key[1] \in {"token", "infra", "oracle", "cross-chain", "rpc-capability", "fallback"}
         /\ Len(key) = 3 -> IF key[2] = "blocked" THEN "BLOCKED" ELSE "UNKNOWN"
    [] key[1] = "token" /\ Len(key) = 4 -> IF key[2] = "WETH" THEN Review ELSE SafeAutomatic
    [] OTHER -> Review

ActionFields == {"key", "ruleId", "category", "stage", "automation", "source", "target", "findings",
                 "evidence", "dependsOn"}

\* An action made from one finding.
Action(a, f, c) ==
  /\ DOMAIN a = ActionFields
  /\ a.findings = {f.requirement}
  /\ a.dependsOn \subseteq {ChainIdKey(c)}
  /\ a.stage \in ToSet(MIGRATION_STAGES)
  /\ a.automation \in DOMAIN AUTOMATION_RANK
  /\ a.automation = Automation(a.key, c)
  /\ a.automation = "BLOCKED" <=> f.status = "BLOCKER"
  /\ f.status = "UNKNOWN" => a.automation = "UNKNOWN"

LEMMA DraftIs ==
  ASSUME NEW f, NEW key, NEW category, NEW stg, NEW automation, NEW source, NEW target, NEW deps
  PROVE  LET a == draft(f, key, category, stg, automation, source, target, deps)
         IN /\ a.key = key /\ a.stage = stg /\ a.automation = automation /\ a.dependsOn = deps
            /\ a.findings = {f.requirement} /\ DOMAIN a = ActionFields
BY DEF draft, ActionFields

LEMMA StagesAre ==
  ToSet(MIGRATION_STAGES) = {"NETWORK_CONFIGURATION", "RPC_AND_EXPLORER", "TOKEN_MAPPINGS",
    "INFRASTRUCTURE_CONTRACTS", "ORACLES", "CROSS_CHAIN", "CONTRACT_CONFIGURATION",
    "FRONTEND_CONFIGURATION", "DEPLOYMENT_CONFIGURATION", "MANUAL_REVIEW"}
BY DEF MIGRATION_STAGES, ToSet

LEMMA CreatedIsAction ==
  ASSUME NEW f, NEW c, Finding(f, c), f.status # "PASS"
  PROVE  Action(createAction(f, c), f, c)
<1> USE DEF SafeAutomatic, Review, AUTOMATION_RANK
<1> DEFINE a == createAction(f, c)
<1>1. CASE f.ruleId = "chain-id"
  BY <1>1, DraftIs, StagesAre DEF createAction, chainIdMigrationRule, ChainIdKey, Action, Automation, Finding
<1>2. CASE f.ruleId = "hardcoded-rpc"
  <2> DEFINE automation == IF Len(c.snapshot.rpcUrls) = 1 THEN SafeAutomatic ELSE Review
             key == IF f.category = "FRONTEND" THEN <<"frontend-rpc", f.source.value>>
                    ELSE <<"rpc-url", f.source.value>>
  <2>1. /\ a.key = key /\ a.automation = automation /\ a.dependsOn = {ChainIdKey(c)}
        /\ a.stage \in {"FRONTEND_CONFIGURATION", "RPC_AND_EXPLORER"} /\ a.findings = {f.requirement}
        /\ DOMAIN a = ActionFields
    BY <1>2 DEF createAction, rpcUrlMigrationRule, draft, ActionFields
  <2>2. Automation(key, c) = automation
    BY DEF Automation
  <2> HIDE DEF a
  <2>3. Action(a, f, c)
    BY <1>2, <2>1, <2>2, StagesAre DEF Action, Finding, AUTOMATION_RANK
  <2> QED BY <2>3 DEF a
<1>3. CASE f.ruleId = "env-config"
  <2> DEFINE name == IF f.source.key = None THEN f.source.value ELSE f.source.key
             foreign == Has(name, NAMED_NETWORKS) /\ ~Has(name, {EnvName(c.targetChainKey)})
             automation == IF foreign THEN Review ELSE SafeAutomatic
  <2>1. /\ a.key = <<"env", name>> /\ a.automation = automation /\ a.dependsOn = {ChainIdKey(c)}
        /\ a.stage \in {"RPC_AND_EXPLORER", "NETWORK_CONFIGURATION"} /\ a.findings = {f.requirement}
        /\ DOMAIN a = ActionFields
    BY <1>3 DEF createAction, envConfigMigrationRule, draft, ActionFields
  <2> HIDE DEF name
  <2>2. Automation(<<"env", name>>, c) = automation
    BY DEF Automation
  <2> HIDE DEF a, foreign
  <2>3. Action(a, f, c)
    BY <1>3, <2>1, <2>2, StagesAre DEF Action, Finding, AUTOMATION_RANK
  <2> QED BY <2>3 DEF a
<1>4. CASE f.ruleId = "token-availability"
  BY <1>4, DraftIs, StagesAre DEF createAction, tokenAddressMigrationRule, Blocked, Unverified, Action, Automation, Finding
<1>5. CASE f.ruleId \in {"infrastructure-contract", "uniswap"}
  <2>1. createAction(f, c) = infrastructureAddressMigrationRule(f, c)
    BY <1>5 DEF createAction
  <2>2. Action(infrastructureAddressMigrationRule(f, c), f, c)
    BY <1>5, DraftIs, StagesAre
    DEF infrastructureAddressMigrationRule, Blocked, Unverified, Action, Automation, Finding
  <2> QED BY <2>1, <2>2
<1>6. CASE f.ruleId = "oracle-availability"
  BY <1>6, DraftIs, StagesAre DEF createAction, oracleMigrationRule, Blocked, Unverified, Action, Automation, Finding
<1>7. CASE f.ruleId = "rpc-capability"
  BY <1>7, DraftIs, StagesAre DEF createAction, rpcCapabilityMigrationRule, Action, Automation, Finding
<1>8. CASE f.ruleId = "layerzero"
  BY <1>8, DraftIs, StagesAre DEF createAction, crossChainMigrationRule, Blocked, Unverified, Action, Automation, Finding
<1>9. CASE f.ruleId = "project-deployment"
  BY <1>9, DraftIs, StagesAre DEF createAction, projectDeploymentMigrationRule, Action, Automation, Finding
<1>10. CASE f.ruleId = "hardcoded-address"
  BY <1>10, DraftIs, StagesAre DEF createAction, unknownAddressMigrationRule, Action, Automation, Finding
<1>11. CASE f.ruleId \notin PlannedRules
  <2>1. f.status = "UNKNOWN"
    BY <1>11 DEF Finding
  <2>2. createAction(f, c) = fallbackMigrationRule(f, c)
    BY <1>11 DEF createAction, PlannedRules
  <2>3. Action(fallbackMigrationRule(f, c), f, c)
    BY <2>1, DraftIs, StagesAre DEF fallbackMigrationRule, Action, Automation
  <2> QED BY <2>2, <2>3
<1> QED
  BY <1>1, <1>2, <1>3, <1>4, <1>5, <1>6, <1>7, <1>8, <1>9, <1>10, <1>11 DEF PlannedRules

\* The key of an action is in what its finding says.
LEMMA KeyIsSaid ==
  ASSUME NEW c, NEW f, NEW g, Finding(f, c), Finding(g, c), SameFinding(f, g), f.status # "PASS"
  PROVE  createAction(f, c).key = createAction(g, c).key
<1>1. /\ f.ruleId = g.ruleId /\ f.status = g.status /\ f.category = g.category
      /\ f.title = g.title /\ f.about = g.about /\ f.source = g.source
  BY DEF SameFinding
<1>2. CASE f.ruleId = "chain-id"
  BY <1>1, <1>2, DraftIs DEF createAction, chainIdMigrationRule
<1>3. CASE f.ruleId = "hardcoded-rpc"
  BY <1>1, <1>3, DraftIs DEF createAction, rpcUrlMigrationRule
<1>4. CASE f.ruleId = "env-config"
  BY <1>1, <1>4, DraftIs DEF createAction, envConfigMigrationRule
<1>5. CASE f.ruleId = "token-availability"
  <2>1. f.target = g.target
    BY <1>1, <1>5 DEF Finding, TokenTarget
  <2> QED BY <1>1, <1>5, <2>1, DraftIs DEF createAction, tokenAddressMigrationRule, Blocked, Unverified
<1>6. CASE f.ruleId \in {"infrastructure-contract", "uniswap"}
  <2>1. f.requirementKey = g.requirementKey
    BY <1>1, <1>6 DEF Finding
  <2> QED
    BY <1>1, <1>6, <2>1, DraftIs
    DEF createAction, infrastructureAddressMigrationRule, Blocked, Unverified
<1>7. CASE f.ruleId = "oracle-availability"
  BY <1>1, <1>7, DraftIs DEF createAction, oracleMigrationRule, Blocked, Unverified
<1>8. CASE f.ruleId = "rpc-capability"
  BY <1>1, <1>8, DraftIs DEF createAction, rpcCapabilityMigrationRule
<1>9. CASE f.ruleId = "layerzero"
  BY <1>1, <1>9, DraftIs DEF createAction, crossChainMigrationRule, Blocked, Unverified
<1>10. CASE f.ruleId = "project-deployment"
  BY <1>1, <1>10, DraftIs DEF createAction, projectDeploymentMigrationRule
<1>11. CASE f.ruleId = "hardcoded-address"
  BY <1>1, <1>11, DraftIs DEF createAction, unknownAddressMigrationRule
<1>12. CASE f.ruleId \notin PlannedRules
  <2>1. f.status = "UNKNOWN"
    BY <1>12 DEF Finding
  <2> QED BY <1>1, <1>12, <2>1, DraftIs DEF createAction, fallbackMigrationRule, PlannedRules
<1> QED
  BY <1>2, <1>3, <1>4, <1>5, <1>6, <1>7, <1>8, <1>9, <1>10, <1>11, <1>12 DEF PlannedRules

-----------------------------------------------------------------------------
(* The report                                                              *)

\* What a finding says, by which it is told from another.
Kind(f) == <<f.ruleId, f.status, f.category, f.title, f.about, f.source>>
Kinds(findings) == {Kind(findings[k]) : k \in DOMAIN findings}

\* The findings of a report: a list in which nothing is said twice.
Reported(findings, c) ==
  /\ IsList(findings)
  /\ \A k \in DOMAIN findings : Finding(findings[k], c)
  /\ \A j, k \in DOMAIN findings : Kind(findings[j]) = Kind(findings[k]) => j = k

LEMMA SaidTheSame == \A f, g : SameFinding(f, g) <=> Kind(f) = Kind(g)
BY DEF SameFinding, Kind

\* The rows of a list, in any order.
Shuffles(s) == {[k \in DOMAIN s |-> s[at[k]]] : at \in Bijection(DOMAIN s, DOMAIN s)}

LEMMA ShufflesAre ==
  ASSUME NEW s, IsList(s), NEW t \in Shuffles(s)
  PROVE  IsList(t) /\ ToSet(t) = ToSet(s)
<1>1. PICK at \in Bijection(DOMAIN s, DOMAIN s) : t = [k \in DOMAIN s |-> s[at[k]]]
  BY DEF Shuffles
<1> QED BY <1>1, Rearranged

LEMMA RowsAre ==
  ASSUME NEW s, IsList(s), NEW order
  PROVE  Rows(s, order) \in Shuffles(s)
<1> DEFINE n == Len(s)
<1>1. n \in Nat /\ DOMAIN s = 1 .. n /\ s = [k \in 1 .. n |-> s[k]]
  BY ListFacts
<1>2. \E at \in Bijection(1 .. n, 1 .. n) : Rows(s, order) = [k \in 1 .. n |-> s[at[k]]]
  <2>1. CASE order = "reversed"
    <3> DEFINE at == [k \in 1 .. n |-> (n - k) + 1]
    <3>1. \A k \in 1 .. n : at[k] \in 1 .. n /\ at[at[k]] = k
      BY <1>1
    <3>2. at \in [1 .. n -> 1 .. n]
      BY <3>1
    <3>3. Rows(s, order) = [k \in 1 .. n |-> s[at[k]]]
      BY <2>1 DEF Rows, Reverse
    <3> HIDE DEF at
    <3>4. at \in Bijection(1 .. n, 1 .. n)
      BY <3>1, <3>2 DEF Bijection, Injection, Surjection, IsInjective
    <3> QED BY <3>3, <3>4
  <2>2. CASE order # "reversed"
    <3> DEFINE at == [k \in 1 .. n |-> k]
    <3>1. at \in Bijection(1 .. n, 1 .. n)
      BY DEF Bijection, Injection, Surjection, IsInjective
    <3>2. Rows(s, order) = [k \in 1 .. n |-> s[at[k]]]
      BY <1>1, <2>2 DEF Rows
    <3> QED BY <3>1, <3>2
  <2> QED BY <2>1, <2>2
<1> QED BY <1>1, <1>2 DEF Shuffles

\* What is left of a list, each the first that says what it says.
LEMMA UniqueAre ==
  ASSUME NEW findings, IsList(findings)
  PROVE  LET u == dedupeFindings(findings)
         IN /\ IsList(u) /\ ToSet(u) \subseteq ToSet(findings) /\ Kinds(u) = Kinds(findings)
            /\ \A j, k \in DOMAIN u : Kind(u[j]) = Kind(u[k]) => j = k
<1> DEFINE u == dedupeFindings(findings)
           kind == [k \in DOMAIN findings |-> Kind(findings[k])]
           I == {k \in DOMAIN findings : \A j \in 1 .. k - 1 : ~ SameFinding(findings[j], findings[k])}
<1>1. Len(findings) \in Nat /\ DOMAIN findings = 1 .. Len(findings)
  BY ListFacts
<1>2. I = Firsts(kind)
  <2>1. \A k \in DOMAIN findings : \A j \in 1 .. k - 1 : j \in DOMAIN findings
    BY <1>1
  <2>2. \A k \in DOMAIN findings : \A j \in 1 .. k - 1 :
          SameFinding(findings[j], findings[k]) <=> kind[j] = kind[k]
    BY <2>1, SaidTheSame
  <2> HIDE DEF kind
  <2>3. DOMAIN kind = DOMAIN findings
    BY DEF kind
  <2> QED BY <2>2, <2>3 DEF Firsts
<1>3. /\ I \subseteq DOMAIN findings
      /\ \A j, k \in I : kind[j] = kind[k] => j = k
      /\ \A k \in DOMAIN findings : \E j \in I : kind[j] = kind[k]
  <2>1. DOMAIN kind = 1 .. Len(findings)
    BY <1>1
  <2> HIDE DEF kind, I
  <2> QED BY <1>1, <1>2, <2>1, FirstsAre
<1>4. u = At(findings, I)
  BY DEF dedupeFindings, FirstOf
<1> HIDE DEF I, u
<1>5. IsList(u) /\ ToSet(u) = {findings[k] : k \in I}
  BY <1>3, <1>4, AtIs
<1>6. PICK at \in Bijection(DOMAIN u, I) : u = [n \in DOMAIN u |-> findings[at[n]]]
  BY <1>3, <1>4, AtIs
<1>7. /\ \A n \in DOMAIN u : at[n] \in I /\ u[n] = findings[at[n]]
      /\ \A m, n \in DOMAIN u : at[m] = at[n] => m = n
      /\ \A k \in I : \E n \in DOMAIN u : at[n] = k
  BY <1>6 DEF Bijection, Injection, Surjection, IsInjective
<1>8. ToSet(u) \subseteq ToSet(findings)
  BY <1>3, <1>5 DEF ToSet
<1>9. ASSUME NEW j \in DOMAIN u, NEW k \in DOMAIN u, Kind(u[j]) = Kind(u[k]) PROVE j = k
  <2>1. kind[at[j]] = Kind(u[j]) /\ kind[at[k]] = Kind(u[k])
    BY <1>3, <1>7
  <2> HIDE DEF kind
  <2> QED BY <1>3, <1>7, <1>9, <2>1
<1>10. Kinds(u) = Kinds(findings)
  <2>1. \A n \in DOMAIN u : Kind(u[n]) \in Kinds(findings)
    BY <1>3, <1>7 DEF Kinds
  <2>2. \A k \in DOMAIN findings : Kind(findings[k]) \in Kinds(u)
    <3> TAKE k \in DOMAIN findings
    <3>1. PICK j \in I : Kind(findings[j]) = Kind(findings[k])
      BY <1>3
    <3>2. PICK n \in DOMAIN u : at[n] = j
      BY <1>7
    <3> QED BY <1>7, <3>1, <3>2 DEF Kinds
  <2> QED BY <2>1, <2>2 DEF Kinds
<1> QED BY <1>5, <1>8, <1>9, <1>10 DEF u

\* As many findings say something as there are things they say.
Saying(findings, Q) == {k \in DOMAIN findings : Kind(findings[k]) \in Q}

LEMMA SayingsCounted ==
  ASSUME NEW c, NEW findings, Reported(findings, c), NEW Q
  PROVE  Cardinality(Saying(findings, Q)) = Cardinality(Kinds(findings) \cap Q)
<1> DEFINE kind == [k \in DOMAIN findings |-> Kind(findings[k])]
           I == Saying(findings, Q)
<1>1. IsFiniteSet(DOMAIN findings)
  BY ListFacts DEF Reported
<1>2. IsFiniteSet(I)
  BY <1>1, FS_Subset DEF Saying
<1>3. {kind[k] : k \in I} = Kinds(findings) \cap Q
  BY DEF Kinds, Saying
<1>4. \A j, k \in I : kind[j] = kind[k] => j = k
  BY DEF Reported, Saying
<1>5. I \subseteq DOMAIN kind
  BY DEF Saying
<1> HIDE DEF kind
<1> QED BY <1>2, <1>3, <1>4, <1>5, KindsCounted

\* The findings with a status or of a category, from what they say.
OfStatus(kinds, status)     == {x \in kinds : x[2] = status}
OfCategory(kinds, category) == {x \in kinds : x[3] = category}

LEMMA Said ==
  ASSUME NEW h
  PROVE  /\ \A status : With(h, status) = Saying(h, OfStatus(Kinds(h), status))
         /\ \A category : /\ Of(h, category) = Saying(h, OfCategory(Kinds(h), category))
                          /\ Of(h, category) # {} <=> OfCategory(Kinds(h), category) # {}
         /\ \A category, status :
              /\ Of(h, category) \cap With(h, status) =
                   Saying(h, OfCategory(Kinds(h), category) \cap OfStatus(Kinds(h), status))
              /\ Of(h, category) \ With(h, status) # {} <=>
                   OfCategory(Kinds(h), category) \ OfStatus(Kinds(h), status) # {}
<1> USE DEF OfStatus, OfCategory
<1>1. \A k \in DOMAIN h : Kind(h[k]) \in Kinds(h) /\ Kind(h[k])[2] = h[k].status
                          /\ Kind(h[k])[3] = h[k].category
  BY DEF Kinds, Kind
<1>2. \A x \in Kinds(h) : \E k \in DOMAIN h : x = Kind(h[k])
  BY DEF Kinds
<1>3. ASSUME NEW status PROVE With(h, status) = Saying(h, OfStatus(Kinds(h), status))
  BY <1>1 DEF With, Saying
<1>4. ASSUME NEW category PROVE Of(h, category) = Saying(h, OfCategory(Kinds(h), category))
  BY <1>1 DEF Of, Saying
<1>5. ASSUME NEW status, NEW category
      PROVE  /\ Of(h, category) # {} <=> OfCategory(Kinds(h), category) # {}
             /\ Of(h, category) \cap With(h, status) =
                  Saying(h, OfCategory(Kinds(h), category) \cap OfStatus(Kinds(h), status))
             /\ Of(h, category) \ With(h, status) # {} <=>
                  OfCategory(Kinds(h), category) \ OfStatus(Kinds(h), status) # {}
  <2>1. /\ With(h, status) = Saying(h, OfStatus(Kinds(h), status))
        /\ Of(h, category) = Saying(h, OfCategory(Kinds(h), category))
    BY <1>3, <1>4
  <2> QED BY <1>2, <2>1 DEF Saying
<1> HIDE DEF OfStatus, OfCategory
<1> QED BY <1>3, <1>4, <1>5

\* The score, the coverage and the verdict are those of what is said.
LEMMA SameScore ==
  ASSUME NEW c, NEW f, NEW g, Reported(f, c), Reported(g, c), Kinds(f) = Kinds(g)
  PROVE  /\ \A status : Count(f, status) = Count(g, status)
         /\ scoreFindings(f) = scoreFindings(g)
         /\ \A coverage : determineReadiness(f, coverage) = determineReadiness(g, coverage)
<1>1. \A Q : Cardinality(Saying(f, Q)) = Cardinality(Saying(g, Q))
  BY SayingsCounted
<1>2. \A status : Count(f, status) = Count(g, status)
  <2>1. \A h, status : With(h, status) = Saying(h, OfStatus(Kinds(h), status))
    BY Said
  <2> QED BY <1>1, <2>1 DEF Count
<1>3. \A category : Cardinality(Of(f, category)) = Cardinality(Of(g, category))
  <2>1. \A h, category : Of(h, category) = Saying(h, OfCategory(Kinds(h), category))
    BY Said
  <2> QED BY <1>1, <2>1
<1>4. \A category, status : Cardinality(Of(f, category) \cap With(f, status)) =
                              Cardinality(Of(g, category) \cap With(g, status))
  <2> TAKE category, status
  <2> DEFINE Q == OfCategory(Kinds(f), category) \cap OfStatus(Kinds(f), status)
  <2>1. Of(f, category) \cap With(f, status) = Saying(f, Q)
    BY Said
  <2>2. Of(g, category) \cap With(g, status) = Saying(g, Q)
    BY Said
  <2> HIDE DEF Q
  <2> QED BY <1>1, <2>1, <2>2
<1>5. applicable(f) = applicable(g) /\ scoredCategories(f) = scoredCategories(g)
  <2>1. \A category : Of(f, category) # {} <=> Of(g, category) # {}
    BY Said
  <2>2. \A category : Of(f, category) \ With(f, "UNKNOWN") # {} <=> Of(g, category) \ With(g, "UNKNOWN") # {}
    <3> TAKE category
    <3> DEFINE Q == OfCategory(Kinds(f), category) \ OfStatus(Kinds(f), "UNKNOWN")
    <3>1. Of(f, category) \ With(f, "UNKNOWN") # {} <=> Q # {}
      BY Said
    <3>2. Of(g, category) \ With(g, "UNKNOWN") # {} <=> Q # {}
      BY Said
    <3> QED BY <3>1, <3>2
  <2> QED BY <2>1, <2>2 DEF applicable, scoredCategories
<1>6. Len(f) = Len(g)
  <2>1. \A h : Saying(h, Kinds(h)) = DOMAIN h
    BY DEF Kinds, Saying
  <2>2. Cardinality(DOMAIN f) = Cardinality(DOMAIN g)
    BY <1>1, <2>1
  <2> QED BY <2>2, ListFacts DEF Reported
<1>7. \A category : baseWeight(category, f) = baseWeight(category, g)
  BY <1>5 DEF baseWeight
<1>8. \A category : categoryScore(category, f) = categoryScore(category, g)
  BY <1>3, <1>4 DEF categoryScore
<1>9. scoreFindings(f) = scoreFindings(g)
  <2> DEFINE scored(h) == scoredCategories(h)
             weightSum(h) == SumFunction([x \in scored(h) |-> baseWeight(x, h)])
             weight(x, h) == round(10000 * baseWeight(x, h), weightSum(h))
             weighted(h) == [x \in scored(h) |-> weight(x, h) * categoryScore(x, h)]
  <2>1. [x \in scored(f) |-> baseWeight(x, f)] = [x \in scored(g) |-> baseWeight(x, g)]
    BY <1>5, <1>7
  <2>2. weightSum(f) = weightSum(g)
    BY <2>1
  <2> HIDE DEF weightSum
  <2>3. \A x : weight(x, f) = weight(x, g)
    BY <1>7, <2>2
  <2> HIDE DEF weight
  <2>4. weighted(f) = weighted(g)
    BY <1>5, <1>8, <2>3
  <2>5. \A h : scoreFindings(h) =
                 [score |-> CASE scored(h) # {} -> round(SumFunction(weighted(h)), 100000)
                              [] scored(h) = {} /\ Len(h) > 0 -> 0
                              [] OTHER -> 100,
                  coverage |-> IF Len(h) = 0 THEN 100
                               ELSE round(100 * (Len(h) - Count(h, "UNKNOWN")), Len(h))]
    BY DEF scoreFindings, weight, weightSum
  <2>6. scored(f) = scored(g) /\ Count(f, "UNKNOWN") = Count(g, "UNKNOWN")
    BY <1>2, <1>5
  <2> HIDE DEF weighted, scored
  <2> QED BY <1>6, <2>4, <2>5, <2>6
<1>10. \A coverage : determineReadiness(f, coverage) = determineReadiness(g, coverage)
  BY <1>2 DEF determineReadiness
<1> QED BY <1>2, <1>9, <1>10

\* What the engine makes of a set of requirements, before it says everything once.
Made(c, reqs, hasSolidity) ==
  LET found == {Evaluate(r, c) : r \in {x \in reqs : ~shouldSkipRequirement(x)}}
  IN IF hasSolidity /\ ~ \E f \in found : f.category = "CONTRACTS" /\ f.status = "PASS"
     THEN found \cup {evmSolidityPass(c)} ELSE found

\* The report: what is made of the requirements, said once.
LEMMA ReportIs ==
  ASSUME NEW c, NEW reqs, IsList(reqs), NEW hasSolidity
  PROVE  LET r == evaluateCompatibility(c, reqs, hasSolidity)
         IN /\ Reported(r.findings, c)
            /\ Kinds(r.findings) = {Kind(f) : f \in Made(c, ToSet(reqs), hasSolidity)}
            /\ r.score = scoreFindings(r.findings).score
            /\ r.coverage = scoreFindings(r.findings).coverage
            /\ r.readiness = determineReadiness(r.findings, r.coverage)
<1> DEFINE I == {k \in DOMAIN reqs : ~shouldSkipRequirement(reqs[k])}
           asked == At(reqs, I)
           found == [k \in DOMAIN asked |-> Evaluate(asked[k], c)]
           passes == \E k \in DOMAIN found : found[k].category = "CONTRACTS" /\ found[k].status = "PASS"
           added == evmSolidityPass(c)
           all == IF hasSolidity /\ ~passes THEN Append(found, added) ELSE found
           evaluated == {Evaluate(x, c) : x \in {y \in ToSet(reqs) : ~shouldSkipRequirement(y)}}
           u == dedupeFindings(all)
           r == evaluateCompatibility(c, reqs, hasSolidity)
<1>1. /\ r.findings = u /\ r.score = scoreFindings(u).score /\ r.coverage = scoreFindings(u).coverage
      /\ r.readiness = determineReadiness(u, scoreFindings(u).coverage)
  BY DEF evaluateCompatibility, Where
<1>2. IsList(asked) /\ ToSet(asked) = {reqs[k] : k \in I}
  BY AtIs
<1>3. ToSet(asked) = {y \in ToSet(reqs) : ~shouldSkipRequirement(y)}
  BY <1>2 DEF ToSet
<1> HIDE DEF asked
<1>4. IsList(found) /\ ToSet(found) = evaluated
  BY <1>2, <1>3, MappedIs DEF ToSet
<1> HIDE DEF found
<1>5. passes <=> \E f \in evaluated : f.category = "CONTRACTS" /\ f.status = "PASS"
  BY <1>4 DEF ToSet
<1>6. IsList(all) /\ ToSet(all) = Made(c, ToSet(reqs), hasSolidity)
  <2>1. Append(found, added) = found \o <<added>>
    <3>1. found \in Seq(ToSet(found) \cup {added})
      BY <1>4 DEF IsList
    <3> HIDE DEF added
    <3> QED BY <3>1
  <2>2. IsList(<<added>>) /\ ToSet(<<added>>) = {added}
    BY DEF IsList, ToSet
  <2>3. IsList(found \o <<added>>) /\ ToSet(found \o <<added>>) = ToSet(found) \cup {added}
    BY <1>4, <2>2, ListConcat
  <2>4. Made(c, ToSet(reqs), hasSolidity) =
          IF hasSolidity /\ ~passes THEN evaluated \cup {added} ELSE evaluated
    BY <1>5 DEF Made
  <2> HIDE DEF passes, evaluated, added
  <2> QED BY <1>4, <2>1, <2>3, <2>4
<1>7. \A f \in ToSet(all) : Finding(f, c)
  BY <1>6, EvaluationIsFinding, EvmPassIsFinding DEF Made
<1> HIDE DEF all
<1>8. /\ IsList(u) /\ ToSet(u) \subseteq ToSet(all) /\ Kinds(u) = Kinds(all)
      /\ \A j, k \in DOMAIN u : Kind(u[j]) = Kind(u[k]) => j = k
  BY <1>6, UniqueAre
<1> HIDE DEF u
<1>9. Reported(u, c)
  BY <1>7, <1>8 DEF Reported, ToSet
<1>10. Kinds(all) = {Kind(f) : f \in ToSet(all)}
  BY DEF Kinds, ToSet
<1> QED BY <1>1, <1>6, <1>8, <1>9, <1>10

-----------------------------------------------------------------------------
(* The plan                                                                *)

\* An action of a plan, whatever findings it was made from.
Planning(a, c) ==
  /\ DOMAIN a = ActionFields
  /\ a.stage \in ToSet(MIGRATION_STAGES)
  /\ a.automation \in DOMAIN AUTOMATION_RANK
  /\ a.automation = Automation(a.key, c)
  /\ a.dependsOn \subseteq {ChainIdKey(c)}

\* The actions of a plan: no two of one key.
Actions(as, c) ==
  /\ IsList(as)
  /\ \A n \in DOMAIN as : Planning(as[n], c)
  /\ \A m, n \in DOMAIN as : as[m].key = as[n].key => m = n

Keys(as) == {as[n].key : n \in DOMAIN as}

\* An action with the findings, the evidence and the dependencies of others.
Merged(b, a, fs, es, ds) == b = [a EXCEPT !.findings = fs, !.evidence = es, !.dependsOn = ds]

LEMMA MergedActionIs ==
  ASSUME NEW c, NEW a, Planning(a, c), NEW fs, NEW es, NEW ds, ds \subseteq {ChainIdKey(c)},
         NEW b, Merged(b, a, fs, es, ds)
  PROVE  Planning(b, c) /\ b.key = a.key /\ b.findings = fs
<1>1. /\ DOMAIN b = ActionFields /\ b.key = a.key /\ b.findings = fs /\ b.dependsOn = ds
      /\ b.stage = a.stage /\ b.automation = a.automation
  BY DEF Planning, ActionFields, Merged
<1> QED BY <1>1 DEF Planning

LEMMA MergedAre ==
  ASSUME NEW c, NEW drafts, IsList(drafts), \A k \in DOMAIN drafts : Planning(drafts[k], c)
  PROVE  LET merged == mergeDrafts(drafts)
         IN /\ Actions(merged, c) /\ Keys(merged) = Keys(drafts)
            /\ \A k \in DOMAIN drafts :
                 \E n \in DOMAIN merged : drafts[k].findings \subseteq merged[n].findings
<1> DEFINE key == [k \in DOMAIN drafts |-> drafts[k].key]
           I == {k \in DOMAIN drafts : \A j \in 1 .. k - 1 : ~ (drafts[j].key = drafts[k].key)}
           same(d) == {e \in ToSet(drafts) : e.key = d.key}
           Merging(d) == [d EXCEPT !.findings = UNION {e.findings : e \in same(d)},
                                  !.evidence = UNION {e.evidence : e \in same(d)},
                                  !.dependsOn = UNION {e.dependsOn : e \in same(d)}]
           firsts == At(drafts, I)
           merged == mergeDrafts(drafts)
<1>1. Len(drafts) \in Nat /\ DOMAIN drafts = 1 .. Len(drafts)
  BY ListFacts
<1>2. merged = [k \in DOMAIN firsts |-> Merging(firsts[k])]
  BY DEF mergeDrafts, Each, FirstOf
<1>3. I = Firsts(key)
  <2>1. \A k \in DOMAIN drafts : \A j \in 1 .. k - 1 : j \in DOMAIN drafts
    BY <1>1
  <2>2. \A k \in DOMAIN drafts : key[k] = drafts[k].key
    OBVIOUS
  <2>3. DOMAIN key = DOMAIN drafts
    OBVIOUS
  <2> HIDE DEF key
  <2> QED BY <2>1, <2>2, <2>3 DEF Firsts
<1>4. /\ I \subseteq DOMAIN drafts
      /\ \A j, k \in I : drafts[j].key = drafts[k].key => j = k
      /\ \A k \in DOMAIN drafts : \E j \in I : drafts[j].key = drafts[k].key
  <2>1. DOMAIN key = 1 .. Len(drafts) /\ \A k \in DOMAIN drafts : key[k] = drafts[k].key
    BY <1>1
  <2> HIDE DEF key, I
  <2>2. /\ I \subseteq 1 .. Len(drafts)
        /\ \A j, k \in I : key[j] = key[k] => j = k
        /\ \A k \in 1 .. Len(drafts) : \E j \in I : key[j] = key[k]
    BY <1>1, <1>3, <2>1, FirstsAre
  <2>3. \A k \in 1 .. Len(drafts) : key[k] = drafts[k].key
    BY <1>1, <2>1
  <2>4. \A j, k \in I : drafts[j].key = drafts[k].key => j = k
    BY <2>2, <2>3
  <2>5. \A k \in 1 .. Len(drafts) : \E j \in I : drafts[j].key = drafts[k].key
    BY <2>2, <2>3
  <2> QED BY <1>1, <2>2, <2>4, <2>5
<1> HIDE DEF I
<1>5. IsList(firsts)
  BY <1>4, AtIs
<1>6. PICK at \in Bijection(DOMAIN firsts, I) : firsts = [n \in DOMAIN firsts |-> drafts[at[n]]]
  BY <1>4, AtIs
<1>7. /\ \A n \in DOMAIN firsts : at[n] \in I
      /\ \A m, n \in DOMAIN firsts : at[m] = at[n] => m = n
      /\ \A k \in I : \E n \in DOMAIN firsts : at[n] = k
  BY <1>6, OneToOne
<1>8. \A n \in DOMAIN firsts : firsts[n] = drafts[at[n]]
  BY <1>6
<1> HIDE DEF firsts
<1>9. \A d : UNION {e.dependsOn : e \in same(d)} \subseteq {ChainIdKey(c)}
  BY DEF Planning, ToSet
<1>10. \A n \in DOMAIN firsts : /\ Planning(Merging(firsts[n]), c) /\ Merging(firsts[n]).key = firsts[n].key
                               /\ Merging(firsts[n]).findings = UNION {e.findings : e \in same(firsts[n])}
  <2> TAKE n \in DOMAIN firsts
  <2>1. Planning(firsts[n], c)
    BY <1>4, <1>7, <1>8
  <2> DEFINE fs == UNION {e.findings : e \in same(firsts[n])}
             es == UNION {e.evidence : e \in same(firsts[n])}
             ds == UNION {e.dependsOn : e \in same(firsts[n])}
             b == Merging(firsts[n])
  <2>2. ds \subseteq {ChainIdKey(c)}
    BY <1>9
  <2>3. Merged(b, firsts[n], fs, es, ds)
    BY DEF Merged
  <2> HIDE DEF fs, es, ds, b
  <2>4. Planning(b, c) /\ b.key = firsts[n].key /\ b.findings = fs
    BY <2>1, <2>2, <2>3, MergedActionIs
  <2> QED BY <2>4 DEF fs, b
<1> HIDE DEF merged
<1>11. IsList(merged) /\ DOMAIN merged = DOMAIN firsts
  <2>1. merged = [k \in DOMAIN firsts |-> merged[k]]
    BY <1>2
  <2> QED BY <1>5, <2>1, MappedIs
<1>12. \A n \in DOMAIN merged : /\ Planning(merged[n], c) /\ merged[n].key = drafts[at[n]].key
                               /\ merged[n].findings = UNION {e.findings : e \in same(drafts[at[n]])}
  <2> TAKE n \in DOMAIN merged
  <2> DEFINE b == Merging(firsts[n])
             fs == UNION {e.findings : e \in same(firsts[n])}
  <2>1. Planning(b, c) /\ b.key = firsts[n].key /\ b.findings = fs
    BY <1>10, <1>11
  <2>2. merged[n] = b
    BY <1>2, <1>11
  <2>3. firsts[n] = drafts[at[n]]
    BY <1>8, <1>11
  <2> HIDE DEF b, fs
  <2>4. Planning(merged[n], c) /\ merged[n].key = drafts[at[n]].key /\ merged[n].findings = fs
    BY <2>1, <2>2, <2>3
  <2> QED BY <2>3, <2>4 DEF fs
<1>13. Actions(merged, c)
  BY <1>4, <1>7, <1>11, <1>12 DEF Actions
<1>14. \A k \in DOMAIN drafts : \E n \in DOMAIN merged :
         merged[n].key = drafts[k].key /\ drafts[k].findings \subseteq merged[n].findings
  <2> TAKE k \in DOMAIN drafts
  <2>1. PICK j \in I : drafts[j].key = drafts[k].key
    BY <1>4
  <2>2. PICK n \in DOMAIN merged : at[n] = j
    BY <1>7, <1>11
  <2>3. drafts[k] \in same(drafts[j])
    BY <2>1 DEF ToSet
  <2> HIDE DEF same
  <2> QED BY <1>12, <2>1, <2>2, <2>3
<1>15. Keys(merged) = Keys(drafts)
  <2>1. \A n \in DOMAIN merged : merged[n].key \in Keys(drafts)
    BY <1>4, <1>7, <1>11, <1>12 DEF Keys
  <2>2. \A k \in DOMAIN drafts : drafts[k].key \in Keys(merged)
    BY <1>14 DEF Keys
  <2> QED BY <2>1, <2>2 DEF Keys
<1> QED BY <1>13, <1>14, <1>15 DEF merged

\* What is left of the dependencies: on another action of the plan.
Resolved(as, c) ==
  \A n \in DOMAIN as : as[n].dependsOn \subseteq ({ChainIdKey(c)} \cap Keys(as)) \ {as[n].key}

LEMMA ResolvedAre ==
  ASSUME NEW c, NEW as, Actions(as, c)
  PROVE  LET rs == resolvedDependencies(as)
         IN /\ Actions(rs, c) /\ Resolved(rs, c) /\ DOMAIN rs = DOMAIN as /\ Keys(rs) = Keys(as)
            /\ \A n \in DOMAIN as : rs[n].findings = as[n].findings
<1> DEFINE rs == resolvedDependencies(as)
           Left(n) == (as[n].dependsOn \cap Keys(as)) \ {as[n].key}
<1>1. rs = [n \in DOMAIN as |-> [as[n] EXCEPT !.dependsOn = Left(n)]]
  BY DEF resolvedDependencies, Keys
<1> HIDE DEF rs
<1>2. IsList(rs) /\ DOMAIN rs = DOMAIN as
  <2>1. rs = [n \in DOMAIN as |-> rs[n]]
    BY <1>1
  <2> QED BY <2>1, MappedIs DEF Actions
<1>3. \A n \in DOMAIN as : /\ Planning(rs[n], c) /\ rs[n].key = as[n].key
                          /\ rs[n].findings = as[n].findings /\ rs[n].dependsOn = Left(n)
  <2> TAKE n \in DOMAIN as
  <2> DEFINE a == as[n]
             ds == Left(n)
  <2>1. Planning(a, c) /\ ds \subseteq {ChainIdKey(c)}
    BY DEF Actions, Planning
  <2>2. rs[n] = [a EXCEPT !.dependsOn = ds]
    BY <1>1
  <2> HIDE DEF a, ds
  <2>3. /\ DOMAIN rs[n] = ActionFields /\ rs[n].key = a.key /\ rs[n].findings = a.findings
        /\ rs[n].dependsOn = ds /\ rs[n].stage = a.stage /\ rs[n].automation = a.automation
    BY <2>1, <2>2 DEF Planning, ActionFields
  <2>4. Planning(rs[n], c)
    BY <2>1, <2>3 DEF Planning
  <2> QED BY <2>3, <2>4 DEF a, ds
<1>4. Keys(rs) = Keys(as)
  BY <1>2, <1>3 DEF Keys
<1>5. Actions(rs, c)
  BY <1>2, <1>3 DEF Actions
<1>6. Resolved(rs, c)
  BY <1>2, <1>3, <1>4 DEF Resolved, Actions, Planning
<1> QED BY <1>2, <1>3, <1>4, <1>5, <1>6 DEF rs

LEMMA OrderedAre ==
  ASSUME NEW c, NEW as, Actions(as, c)
  PROVE  LET os == orderActions(as)
         IN Actions(os, c) /\ ToSet(os) = ToSet(as) /\ Keys(os) = Keys(as)
<1> DEFINE rank == [k \in DOMAIN as |->
                      100 * AUTOMATION_RANK[as[k].automation] + StageRank(as[k].stage)]
           os == orderActions(as)
<1>1. os = SortedBy(as, rank)
  BY DEF orderActions
<1>2. rank \in [DOMAIN as -> Int]
  <2>1. \A a \in DOMAIN AUTOMATION_RANK : AUTOMATION_RANK[a] \in Int
    BY DEF AUTOMATION_RANK
  <2>2. \A s \in ToSet(MIGRATION_STAGES) : StageRank(s) \in Int
    <3> TAKE s \in ToSet(MIGRATION_STAGES)
    <3>1. \E n \in DOMAIN MIGRATION_STAGES : MIGRATION_STAGES[n] = s
      BY DEF ToSet
    <3>2. DOMAIN MIGRATION_STAGES = 1 .. 10
      BY DEF MIGRATION_STAGES
    <3>3. StageRank(s) \in DOMAIN MIGRATION_STAGES
      BY <3>1 DEF StageRank
    <3> QED BY <3>2, <3>3
  <2>3. \A k \in DOMAIN as : as[k].automation \in DOMAIN AUTOMATION_RANK
                             /\ as[k].stage \in ToSet(MIGRATION_STAGES)
    BY DEF Actions, Planning
  <2>4. \A k \in DOMAIN as : /\ AUTOMATION_RANK[as[k].automation] \in Int
                            /\ StageRank(as[k].stage) \in Int
    BY <2>1, <2>2, <2>3
  <2>5. \A k \in DOMAIN as : 100 * AUTOMATION_RANK[as[k].automation] + StageRank(as[k].stage) \in Int
    <3> TAKE k \in DOMAIN as
    <3> DEFINE x == AUTOMATION_RANK[as[k].automation]
               y == StageRank(as[k].stage)
    <3>1. x \in Int /\ y \in Int
      BY <2>4
    <3> HIDE DEF x, y
    <3>2. 100 * x + y \in Int
      BY <3>1
    <3> QED BY <3>2 DEF x, y
  <2> QED BY <2>5
<1> HIDE DEF rank, os
<1>3. /\ IsList(os) /\ ToSet(os) = ToSet(as)
      /\ \E at \in Bijection(DOMAIN as, DOMAIN as) : os = [n \in DOMAIN as |-> as[at[n]]]
  <2>1. IsList(as)
    BY DEF Actions
  <2>2. /\ IsList(SortedBy(as, rank)) /\ ToSet(SortedBy(as, rank)) = ToSet(as)
        /\ \E at \in Bijection(DOMAIN as, DOMAIN as) :
             SortedBy(as, rank) = [n \in DOMAIN as |-> as[at[n]]]
    BY <1>2, <2>1, SortedIs
  <2> QED BY <1>1, <2>2
<1>4. PICK at \in Bijection(DOMAIN as, DOMAIN as) : os = [n \in DOMAIN as |-> as[at[n]]]
  BY <1>3
<1>5. /\ \A n \in DOMAIN as : at[n] \in DOMAIN as
      /\ \A m, n \in DOMAIN as : at[m] = at[n] => m = n
  BY <1>4, OneToOne
<1>6. Actions(os, c)
  <2>1. DOMAIN os = DOMAIN as /\ \A n \in DOMAIN as : os[n] = as[at[n]]
    BY <1>4
  <2>2. \A n \in DOMAIN os : Planning(os[n], c)
    BY <1>5, <2>1 DEF Actions
  <2>3. \A m, n \in DOMAIN os : os[m].key = os[n].key => m = n
    <3> TAKE m, n \in DOMAIN os
    <3>1. at[m] \in DOMAIN as /\ at[n] \in DOMAIN as /\ os[m] = as[at[m]] /\ os[n] = as[at[n]]
      BY <1>5, <2>1
    <3>2. os[m].key = os[n].key => at[m] = at[n]
      BY <3>1 DEF Actions
    <3> QED BY <1>5, <2>1, <3>2
  <2> QED BY <1>3, <2>2, <2>3 DEF Actions
<1>7. Keys(os) = Keys(as)
  <2>1. \A l : Keys(l) = {a.key : a \in ToSet(l)}
    BY DEF Keys, ToSet
  <2> QED BY <1>3, <2>1
<1> QED BY <1>3, <1>6, <1>7 DEF os

KeysIn(as, I) == {as[k].key : k \in I}

\* The rounds of topologicalOrder.
KeysAt(as, I) == At([k \in DOMAIN as |-> as[k].key], I)

Roots(as) == {k \in DOMAIN as : as[k].dependsOn = {}}

Released(as, done, n) ==
  {k \in DOMAIN as : /\ done[n] \in as[k].dependsOn
                     /\ as[k].key \notin ToSet(done)
                     /\ as[k].dependsOn \subseteq ToSet(done)}

Round(as, done, n) ==
  IF n > Len(done) THEN done ELSE done \o KeysAt(as, Released(as, done, n))

LEMMA SequenceFacts ==
  ASSUME NEW S, NEW s \in Seq(S)
  PROVE  IsList(s) /\ ToSet(s) \subseteq S /\ Len(s) \in Nat
<1>1. Len(s) \in Nat /\ s \in [1 .. Len(s) -> S]
  OBVIOUS
<1> QED BY <1>1, ListOf

LEMMA ListIn ==
  ASSUME NEW S, NEW s, IsList(s), ToSet(s) \subseteq S PROVE s \in Seq(S)
<1>1. s \in [1 .. Len(s) -> ToSet(s)] /\ Len(s) \in Nat
  BY ListFacts
<1>2. s \in [1 .. Len(s) -> S]
  BY <1>1
<1> QED BY <1>1, <1>2

LEMMA KeysAtAre ==
  ASSUME NEW as, IsList(as), NEW I \in SUBSET DOMAIN as
  PROVE  /\ IsList(KeysAt(as, I)) /\ KeysAt(as, I) \in Seq(Keys(as))
         /\ ToSet(KeysAt(as, I)) = KeysIn(as, I) /\ Len(KeysAt(as, I)) = Cardinality(I)
<1> DEFINE key == [k \in DOMAIN as |-> as[k].key]
<1>1. DOMAIN key = DOMAIN as /\ \A k \in DOMAIN as : key[k] = as[k].key
  OBVIOUS
<1>2. IsList(key)
  BY MappedIs
<1>3. KeysAt(as, I) = At(key, I)
  BY DEF KeysAt
<1> HIDE DEF key
<1>4. IsList(At(key, I)) /\ ToSet(At(key, I)) = {key[k] : k \in I} /\ Len(At(key, I)) = Cardinality(I)
  <2>1. I \in SUBSET DOMAIN key
    BY <1>1
  <2> QED BY <1>2, <2>1, AtIs
<1>5. {key[k] : k \in I} = KeysIn(as, I) /\ {key[k] : k \in I} \subseteq Keys(as)
  BY <1>1 DEF Keys, KeysIn
<1>6. At(key, I) \in Seq(Keys(as))
  BY <1>4, <1>5, ListIn
<1> QED BY <1>3, <1>4, <1>5, <1>6

\* A round keeps what was visited before, in its place, and visits what has been released.
LEMMA RoundIs ==
  ASSUME NEW as, IsList(as), NEW done \in Seq(Keys(as)), NEW n \in Nat
  PROVE  /\ Round(as, done, n) \in Seq(Keys(as)) /\ Len(done) <= Len(Round(as, done, n))
         /\ ToSet(done) \subseteq ToSet(Round(as, done, n))
         /\ \A i \in 1 .. Len(done) : Round(as, done, n)[i] = done[i]
         /\ n <= Len(done) => ToSet(Round(as, done, n)) =
                                ToSet(done) \cup KeysIn(as, Released(as, done, n))
<1> DEFINE I == Released(as, done, n)
           l == KeysAt(as, I)
           t == Round(as, done, n)
<1>1. I \in SUBSET DOMAIN as
  BY DEF Released
<1>2. t = IF n > Len(done) THEN done ELSE done \o l
  BY DEF Round
<1> HIDE DEF I
<1>3. l \in Seq(Keys(as)) /\ IsList(l) /\ ToSet(l) = KeysIn(as, I)
  BY <1>1, KeysAtAre
<1> HIDE DEF l, t
<1>4. IsList(done) /\ Len(done) \in Nat /\ Len(l) \in Nat
  BY <1>3, SequenceFacts
<1>5. /\ Len(done \o l) = Len(done) + Len(l) /\ ToSet(done \o l) = ToSet(done) \cup ToSet(l)
      /\ IsList(done \o l) /\ \A i \in 1 .. Len(done) : (done \o l)[i] = done[i]
  BY <1>3, <1>4, ListConcat
<1>6. done \o l \in Seq(Keys(as))
  <2>1. ToSet(done \o l) \subseteq Keys(as)
    BY <1>3, <1>5, SequenceFacts
  <2> QED BY <1>5, <2>1, ListIn
<1>7. CASE n > Len(done)
  <2>1. t = done /\ Len(done) <= Len(done) /\ ~ (n <= Len(done))
    BY <1>2, <1>4, <1>7
  <2> QED BY <2>1 DEF t
<1>8. CASE ~ (n > Len(done))
  <2>1. t = done \o l /\ Len(done) <= Len(done \o l)
    BY <1>2, <1>4, <1>5, <1>8
  <2>2. ToSet(t) = ToSet(done) \cup KeysIn(as, I) /\ ToSet(done) \subseteq ToSet(t)
    BY <1>3, <1>5, <2>1
  <2> QED BY <1>5, <1>6, <2>1, <2>2 DEF t, I
<1> QED BY <1>7, <1>8

LEMMA VisitsAre ==
  ASSUME NEW as, IsList(as)
  PROVE  \E v : /\ v[0] = KeysAt(as, Roots(as))
                /\ \A n \in 1 .. Len(as) : v[n] = Round(as, v[n - 1], n)
                /\ topologicalOrder(as) = v[Len(as)]
<1> DEFINE N == Len(as)
           Lists == Seq(Keys(as))
           Visits(v) == [n \in 0 .. N |-> IF n = 0 THEN KeysAt(as, Roots(as))
                                          ELSE IF n > Len(v[n - 1]) THEN v[n - 1]
                                          ELSE v[n - 1] \o KeysAt(as, Released(as, v[n - 1], n))]
           v == CHOOSE v : v = Visits(v)
<1>1. topologicalOrder(as) = v[N]
  BY DEF topologicalOrder, KeysAt, Roots, Released
<1> HIDE DEF v
<1>2. N \in Nat
  BY ListFacts
<1> HIDE DEF N, Lists
<1>3. \A u : u = Visits(u) <=> u = [n \in 0 .. N |-> IF n = 0 THEN KeysAt(as, Roots(as))
                                                     ELSE Round(as, u[n - 1], n)]
  BY DEF Round
<1> HIDE DEF Visits
<1>4. \E u : u = Visits(u)
  <2>1. \A done \in Lists, n \in 1 .. N : Round(as, done, n) \in Lists
    <3> TAKE done \in Lists, n \in 1 .. N
    <3>1. n \in Nat
      BY <1>2
    <3>2. done \in Seq(Keys(as))
      BY DEF Lists
    <3>3. Round(as, done, n) \in Seq(Keys(as))
      BY <3>1, <3>2, RoundIs
    <3> QED BY <3>3 DEF Lists
  <2> DEFINE step == [p \in Lists \X (1 .. N) |-> Round(as, p[1], p[2])]
  <2>2. step \in [Lists \X (1 .. N) -> Lists]
    BY <2>1
  <2>3. \A done \in Lists, n \in 1 .. N : step[<<done, n>>] = Round(as, done, n)
    OBVIOUS
  <2> HIDE DEF step
  <2> DEFINE first == KeysAt(as, Roots(as))
  <2>4. first \in Lists
    BY KeysAtAre DEF Roots, Lists
  <2> HIDE DEF first
  <2>5. PICK f \in [0 .. N -> Lists] : Run(f, first, step, N)
    BY <1>2, <2>2, <2>4, Iterated
  <2>6. \A n \in 0 .. N : n = 0 \/ (n \in 1 .. N /\ n - 1 \in 0 .. N)
    BY <1>2
  <2>7. \A n \in 0 .. N : f[n] = IF n = 0 THEN KeysAt(as, Roots(as)) ELSE Round(as, f[n - 1], n)
    BY <2>3, <2>5, <2>6 DEF first, Run
  <2>8. f = Visits(f)
    BY <1>3, <2>7
  <2> QED BY <2>8
<1>5. v = Visits(v)
  BY <1>4 DEF v
<1>6. \A n \in 0 .. N : v[n] = IF n = 0 THEN KeysAt(as, Roots(as)) ELSE Round(as, v[n - 1], n)
  BY <1>3, <1>5
<1>7. 0 \in 0 .. N /\ \A n \in 1 .. N : n \in 0 .. N /\ n # 0
  BY <1>2
<1>8. v[0] = KeysAt(as, Roots(as)) /\ \A n \in 1 .. N : v[n] = Round(as, v[n - 1], n)
  BY <1>6, <1>7
<1> QED BY <1>1, <1>8 DEF N

\* Whatever depends on something depends on the chain ID, so two rounds reach every action: no plan
\* is refused for a cycle.
LEMMA TopologicalOrderIs ==
  ASSUME NEW c, NEW as, Actions(as, c), Resolved(as, c)
  PROVE  ToSet(topologicalOrder(as)) = Keys(as)
<1> DEFINE N == Len(as)
           K == ChainIdKey(c)
           roots == Roots(as)
           Lists == Seq(Keys(as))
<1>1. N \in Nat /\ DOMAIN as = 1 .. N /\ IsFiniteSet(DOMAIN as) /\ Cardinality(DOMAIN as) = N /\ IsList(as)
  BY ListFacts DEF Actions
<1>2. PICK v : /\ v[0] = KeysAt(as, roots)
               /\ \A n \in 1 .. N : v[n] = Round(as, v[n - 1], n)
               /\ topologicalOrder(as) = v[N]
  BY <1>1, VisitsAre
<1> HIDE DEF N
<1>3. /\ v[0] \in Lists /\ Len(v[0]) \in Nat /\ IsList(v[0])
      /\ ToSet(v[0]) = KeysIn(as, roots) /\ Len(v[0]) = Cardinality(roots)
  <2>1. roots \in SUBSET DOMAIN as
    BY DEF Roots
  <2> HIDE DEF roots
  <2>2. /\ IsList(v[0]) /\ v[0] \in Seq(Keys(as))
        /\ ToSet(v[0]) = KeysIn(as, roots) /\ Len(v[0]) = Cardinality(roots)
    BY <1>1, <1>2, <2>1, KeysAtAre
  <2>3. Len(v[0]) \in Nat
    BY <2>2, ListFacts
  <2> QED BY <2>2, <2>3
<1> HIDE DEF Lists
\* A round keeps what the rounds before it have visited.
<1>4. \A n \in 1 .. N : v[n - 1] \in Lists =>
        /\ v[n] \in Lists /\ Len(v[n - 1]) <= Len(v[n]) /\ ToSet(v[n - 1]) \subseteq ToSet(v[n])
        /\ \A i \in 1 .. Len(v[n - 1]) : v[n][i] = v[n - 1][i]
        /\ n <= Len(v[n - 1]) =>
             ToSet(v[n]) = ToSet(v[n - 1]) \cup KeysIn(as, Released(as, v[n - 1], n))
  <2> SUFFICES ASSUME NEW n \in 1 .. N, v[n - 1] \in Lists
               PROVE  /\ v[n] \in Lists /\ Len(v[n - 1]) <= Len(v[n]) /\ ToSet(v[n - 1]) \subseteq ToSet(v[n])
                      /\ \A i \in 1 .. Len(v[n - 1]) : v[n][i] = v[n - 1][i]
                      /\ n <= Len(v[n - 1]) =>
                           ToSet(v[n]) = ToSet(v[n - 1]) \cup KeysIn(as, Released(as, v[n - 1], n))
    OBVIOUS
  <2> DEFINE done == v[n - 1]
  <2>1. n \in Nat
    BY <1>1
  <2>2. done \in Seq(Keys(as)) /\ v[n] = Round(as, done, n)
    BY <1>2 DEF Lists
  <2> HIDE DEF done
  <2>3. /\ Round(as, done, n) \in Seq(Keys(as)) /\ Len(done) <= Len(Round(as, done, n))
        /\ ToSet(done) \subseteq ToSet(Round(as, done, n))
        /\ \A i \in 1 .. Len(done) : Round(as, done, n)[i] = done[i]
        /\ n <= Len(done) => ToSet(Round(as, done, n)) =
                               ToSet(done) \cup KeysIn(as, Released(as, done, n))
    BY <1>1, <2>1, <2>2, RoundIs
  <2> QED BY <2>2, <2>3 DEF done, Lists
<1>5. \A s \in Lists : IsList(s) /\ ToSet(s) \subseteq Keys(as) /\ Len(s) \in Nat
  BY SequenceFacts DEF Lists
<1>6. \A n \in 0 .. N : /\ v[n] \in Lists /\ Len(v[0]) <= Len(v[n]) /\ ToSet(v[0]) \subseteq ToSet(v[n])
                       /\ \A i \in 1 .. Len(v[0]) : v[n][i] = v[0][i]
  <2> DEFINE Good(n) == /\ v[n] \in Lists /\ Len(v[0]) <= Len(v[n]) /\ ToSet(v[0]) \subseteq ToSet(v[n])
                        /\ \A i \in 1 .. Len(v[0]) : v[n][i] = v[0][i]
             P == {n \in 0 .. N : Good(n)}
  <2>1. 0 \in P
    <3>1. Len(v[0]) <= Len(v[0])
      <4>1. \A x \in Nat : x <= x
        OBVIOUS
      <4> QED BY <1>3, <4>1
    <3>2. 0 \in 0 .. N
      BY <1>1
    <3> QED BY <1>3, <3>1, <3>2
  <2>2. ASSUME NEW n \in 1 .. N, n - 1 \in P PROVE n \in P
    <3>1. v[n - 1] \in Lists /\ Good(n - 1)
      BY <2>2
    <3>2. /\ v[n] \in Lists /\ Len(v[n - 1]) <= Len(v[n]) /\ ToSet(v[n - 1]) \subseteq ToSet(v[n])
          /\ \A i \in 1 .. Len(v[n - 1]) : v[n][i] = v[n - 1][i]
      BY <1>4, <3>1
    <3>3. Len(v[n - 1]) \in Nat /\ Len(v[n]) \in Nat
      BY <1>5, <3>1, <3>2
    <3>4. Len(v[0]) <= Len(v[n]) /\ \A i \in 1 .. Len(v[0]) : i \in 1 .. Len(v[n - 1])
      <4> DEFINE x == Len(v[0])
                 y == Len(v[n - 1])
                 z == Len(v[n])
      <4>1. x \in Nat /\ y \in Nat /\ z \in Nat /\ x <= y /\ y <= z
        BY <1>3, <3>1, <3>2, <3>3
      <4> HIDE DEF x, y, z
      <4>2. x <= z /\ \A i \in 1 .. x : i \in 1 .. y
        BY <4>1
      <4> QED BY <4>2 DEF x, y, z
    <3>5. Good(n)
      BY <3>1, <3>2, <3>4
    <3> QED BY <1>1, <3>5
  <2> HIDE DEF P
  <2>3. \A n \in 0 .. N : n \in P
    BY <1>1, <2>1, <2>2, Induct
  <2> QED BY <2>3 DEF P
<1>7. ASSUME NEW p \in 0 .. N, Keys(as) \subseteq ToSet(v[p]) PROVE ToSet(v[N]) = Keys(as)
  <2> DEFINE P == {n \in 0 .. N : n < p \/ Keys(as) \subseteq ToSet(v[n])}
  <2>1. 0 \in P
    <3>1. 0 \in 0 .. N /\ (0 < p \/ p = 0)
      BY <1>1
    <3> QED BY <1>7, <3>1
  <2>2. ASSUME NEW n \in 1 .. N, n - 1 \in P PROVE n \in P
    <3>1. n < p \/ n = p \/ ~ (n - 1 < p)
      BY <1>1
    <3>2. n - 1 \in 0 .. N /\ n \in 0 .. N
      BY <1>1
    <3>3. ToSet(v[n - 1]) \subseteq ToSet(v[n])
      BY <1>4, <1>6, <3>2
    <3> QED BY <1>7, <2>2, <3>1, <3>2, <3>3
  <2> HIDE DEF P
  <2>3. N \in 0 .. N
    BY <1>1
  <2>4. N \in P
    BY <1>1, <2>1, <2>2, <2>3, Induct
  <2>5. Keys(as) \subseteq ToSet(v[N])
    <3>1. ~ (N < p)
      BY <1>1, <1>7
    <3> QED BY <2>4, <3>1 DEF P
  <2>6. ToSet(v[N]) \subseteq Keys(as)
    BY <1>5, <1>6, <2>3
  <2> QED BY <2>5, <2>6
<1>8. CASE roots = DOMAIN as
  <2>1. Keys(as) \subseteq ToSet(v[0])
    BY <1>3, <1>8 DEF Keys, KeysIn
  <2>2. 0 \in 0 .. N
    BY <1>1
  <2> QED BY <1>2, <1>7, <2>1, <2>2
<1>9. CASE roots # DOMAIN as
  <2>1. \A k \in DOMAIN as : k \notin roots => as[k].dependsOn = {K}
    BY DEF Resolved, Roots
  <2>2. PICK r \in DOMAIN as : as[r].key = K
    BY <1>9, <2>1 DEF Resolved, Keys, Roots
  <2>3. r \in roots
    BY <2>2 DEF Resolved, Roots
  <2> HIDE DEF K
  <2>4. K \in ToSet(v[0])
    BY <1>3, <2>2, <2>3 DEF KeysIn
  <2>5. PICK p \in 1 .. Len(v[0]) : v[0][p] = K
    <3>1. DOMAIN v[0] = 1 .. Len(v[0])
      BY <1>3, ListFacts
    <3> QED BY <2>4, <3>1 DEF ToSet
  <2>6. p \in 1 .. N
    <3>1. Cardinality(roots) <= N
      <4>1. roots \subseteq DOMAIN as
        BY DEF Roots
      <4> HIDE DEF roots
      <4> QED BY <1>1, <4>1, FS_Subset
    <3> DEFINE x == Len(v[0])
    <3>2. x \in Nat /\ x <= N
      BY <1>3, <3>1
    <3>3. p \in 1 .. x
      BY <2>5
    <3> HIDE DEF x
    <3> QED BY <1>1, <3>2, <3>3
  <2> DEFINE done == v[p - 1]
  <2>7. /\ done \in Lists /\ p <= Len(done) /\ done[p] = K /\ ToSet(v[0]) \subseteq ToSet(done)
    <3>1. p - 1 \in 0 .. N
      BY <1>1, <2>6
    <3>2. /\ done \in Lists /\ Len(v[0]) <= Len(done) /\ ToSet(v[0]) \subseteq ToSet(done)
          /\ \A i \in 1 .. Len(v[0]) : done[i] = v[0][i]
      BY <1>6, <3>1
    <3> HIDE DEF done
    <3>3. Len(done) \in Nat
      BY <1>5, <3>2
    <3> DEFINE x == Len(v[0])
               y == Len(done)
    <3>4. x \in Nat /\ y \in Nat /\ x <= y /\ p \in 1 .. x
      BY <1>3, <2>5, <3>2, <3>3
    <3> HIDE DEF x, y
    <3>5. p <= y
      BY <3>4
    <3>6. done[p] = K
      BY <2>5, <3>2
    <3> QED BY <3>2, <3>5, <3>6 DEF y
  <2>8. ToSet(v[p]) = ToSet(done) \cup KeysIn(as, Released(as, done, p))
    BY <1>4, <2>6, <2>7
  <2>9. \A k \in DOMAIN as : as[k].key \in ToSet(done) \/ k \in Released(as, done, p)
    <3> TAKE k \in DOMAIN as
    <3>1. CASE k \in roots
      BY <1>3, <2>7, <3>1 DEF KeysIn
    <3>2. CASE k \notin roots
      BY <2>1, <2>4, <2>7, <3>2 DEF Released
    <3> QED BY <3>1, <3>2
  <2>10. Keys(as) \subseteq ToSet(v[p])
    BY <2>8, <2>9 DEF Keys, KeysIn
  <2>11. p \in 0 .. N
    BY <1>1, <2>6
  <2> QED BY <1>2, <1>7, <2>10, <2>11
<1> QED BY <1>8, <1>9

\* The findings of which a plan is made, and the keys of its actions.
Asked(fs) == {f \in fs : f.status # "PASS"}

AskedKeys(fs, c) == {createAction(f, c).key : f \in Asked(fs)}

\* A plan for a set of findings.
PlanFor(p, fs, c) ==
  /\ Actions(p.actions, c)
  /\ Keys(p.actions) = AskedKeys(fs, c)
  /\ ToSet(p.order) = Keys(p.actions)
  /\ p.outcome = determinePlanOutcome(p.actions)
  /\ p.autoFixable = autoFixablePercent(p.actions)
  /\ \A f \in Asked(fs) : \E n \in DOMAIN p.actions : f.requirement \in p.actions[n].findings

LEMMA PlanIs ==
  ASSUME NEW c, NEW findings, IsList(findings), \A f \in ToSet(findings) : Finding(f, c)
  PROVE  PlanFor(createMigrationPlan(c, findings), ToSet(findings), c)
<1> DEFINE fs == ToSet(findings)
           I == {k \in DOMAIN findings : findings[k].status # "PASS"}
           asked == At(findings, I)
           drafts == [k \in DOMAIN asked |-> createAction(asked[k], c)]
           merged == mergeDrafts(drafts)
           resolved == resolvedDependencies(merged)
           actions == orderActions(resolved)
           p == createMigrationPlan(c, findings)
<1>1. /\ p.actions = actions /\ p.order = topologicalOrder(resolved)
      /\ p.outcome = determinePlanOutcome(actions) /\ p.autoFixable = autoFixablePercent(actions)
  BY DEF createMigrationPlan, Where, Each
<1>2. IsList(asked) /\ ToSet(asked) = Asked(fs)
  <2>1. I \in SUBSET DOMAIN findings
    OBVIOUS
  <2>2. {findings[k] : k \in I} = Asked(fs)
    BY DEF Asked, ToSet
  <2> HIDE DEF I
  <2>3. IsList(At(findings, I)) /\ ToSet(At(findings, I)) = {findings[k] : k \in I}
    BY <2>1, AtIs
  <2> QED BY <2>2, <2>3
<1> HIDE DEF asked, I
<1>3. IsList(drafts) /\ DOMAIN drafts = DOMAIN asked
  BY <1>2, MappedIs
<1>4. \A k \in DOMAIN asked : asked[k] \in Asked(fs) /\ drafts[k] = createAction(asked[k], c)
  BY <1>2 DEF ToSet
<1>5. \A f \in Asked(fs) : \E k \in DOMAIN asked : asked[k] = f
  BY <1>2 DEF ToSet
<1> HIDE DEF drafts
<1>6. \A k \in DOMAIN drafts : /\ Planning(drafts[k], c)
                              /\ drafts[k].findings = {asked[k].requirement}
  <2> TAKE k \in DOMAIN drafts
  <2>1. Finding(asked[k], c) /\ asked[k].status # "PASS"
    BY <1>3, <1>4 DEF Asked
  <2>2. Action(drafts[k], asked[k], c)
    BY <1>3, <1>4, <2>1, CreatedIsAction
  <2> QED BY <2>2 DEF Action, Planning
<1>7. Keys(drafts) = AskedKeys(fs, c)
  BY <1>3, <1>4, <1>5 DEF Keys, AskedKeys
<1>8. /\ Actions(merged, c) /\ Keys(merged) = Keys(drafts)
      /\ \A k \in DOMAIN drafts :
           \E n \in DOMAIN merged : drafts[k].findings \subseteq merged[n].findings
  BY <1>3, <1>6, MergedAre
<1> HIDE DEF merged
<1>9. /\ Actions(resolved, c) /\ Resolved(resolved, c) /\ DOMAIN resolved = DOMAIN merged
      /\ Keys(resolved) = Keys(merged) /\ \A n \in DOMAIN merged : resolved[n].findings = merged[n].findings
  BY <1>8, ResolvedAre
<1> HIDE DEF resolved
<1>10. Actions(actions, c) /\ ToSet(actions) = ToSet(resolved) /\ Keys(actions) = Keys(resolved)
  BY <1>9, OrderedAre
<1>11. ToSet(topologicalOrder(resolved)) = Keys(resolved)
  BY <1>9, TopologicalOrderIs
<1> HIDE DEF actions, p
<1>12. \A f \in Asked(fs) : \E n \in DOMAIN actions : f.requirement \in actions[n].findings
  <2> TAKE f \in Asked(fs)
  <2>1. PICK k \in DOMAIN drafts : asked[k] = f
    BY <1>3, <1>5
  <2>2. PICK m \in DOMAIN merged : drafts[k].findings \subseteq merged[m].findings
    BY <1>8
  <2>3. f.requirement \in resolved[m].findings /\ m \in DOMAIN resolved
    BY <1>6, <1>9, <2>1, <2>2
  <2>4. resolved[m] \in ToSet(actions)
    BY <1>10, <2>3 DEF ToSet
  <2>5. PICK n \in DOMAIN actions : actions[n] = resolved[m]
    BY <2>4 DEF ToSet
  <2> QED BY <2>3, <2>5
<1> QED BY <1>1, <1>7, <1>8, <1>9, <1>10, <1>11, <1>12 DEF PlanFor, p

\* However its findings are read, a report is planned for all of them.
LEMMA ReadIs ==
  ASSUME NEW c, NEW findings, Reported(findings, c), NEW rows \in Shuffles(findings)
  PROVE  LET read == ByStatusAndCategory(rows)
         IN IsList(read) /\ ToSet(read) = ToSet(findings)
<1> DEFINE rank == [k \in DOMAIN rows |->
                      8 * StatusRank[rows[k].status] + CategoryRank[rows[k].category]]
<1>1. IsList(rows) /\ ToSet(rows) = ToSet(findings)
  BY ShufflesAre DEF Reported
<1>2. \A k \in DOMAIN rows : rows[k].status \in Statuses /\ rows[k].category \in COMPATIBILITY_CATEGORIES
  <2>1. \A f \in ToSet(findings) : Finding(f, c)
    BY DEF Reported, ToSet
  <2>2. \A k \in DOMAIN rows : rows[k] \in ToSet(rows)
    BY DEF ToSet
  <2> QED BY <1>1, <2>1, <2>2 DEF Finding
<1>3. rank \in [DOMAIN rows -> Int]
  <2>1. \A x \in Statuses : StatusRank[x] \in Int
    BY DEF Statuses, StatusRank
  <2>2. \A x \in COMPATIBILITY_CATEGORIES : CategoryRank[x] \in Int
    BY DEF COMPATIBILITY_CATEGORIES, CategoryRank
  <2>3. \A x, y \in Int : 8 * x + y \in Int
    OBVIOUS
  <2>4. \A k \in DOMAIN rows : 8 * StatusRank[rows[k].status] + CategoryRank[rows[k].category] \in Int
    BY <1>2, <2>1, <2>2, <2>3
  <2> QED BY <2>4
<1>4. ByStatusAndCategory(rows) = SortedBy(rows, rank)
  BY DEF ByStatusAndCategory
<1> HIDE DEF rank
<1>5. IsList(SortedBy(rows, rank)) /\ ToSet(SortedBy(rows, rank)) = ToSet(rows)
  BY <1>1, <1>3, SortedIs
<1> QED BY <1>1, <1>4, <1>5

\* What is planned for findings read in some order.
PlanOf(rows) == createMigrationPlan(context, ByStatusAndCategory(rows))

LEMMA PlanOfIs ==
  ASSUME NEW r, Reported(r.findings, context), NEW rows \in Shuffles(r.findings)
  PROVE  PlanFor(PlanOf(rows), ToSet(r.findings), context)
<1> DEFINE read == ByStatusAndCategory(rows)
<1>1. IsList(read) /\ ToSet(read) = ToSet(r.findings)
  BY ReadIs
<1>2. PlanOf(rows) = createMigrationPlan(context, read)
  BY DEF PlanOf
<1> HIDE DEF read
<1>3. \A f \in ToSet(read) : Finding(f, context)
  BY <1>1 DEF Reported, ToSet
<1>4. PlanFor(createMigrationPlan(context, read), ToSet(read), context)
  BY <1>1, <1>3, PlanIs
<1> QED BY <1>1, <1>2, <1>4

LEMMA PlannedIs ==
  ASSUME NEW r, Reported(r.findings, context), NEW order
  PROVE  PlanFor(PlannedFrom(r, order), ToSet(r.findings), context)
<1>1. Rows(r.findings, order) \in Shuffles(r.findings)
  BY RowsAre DEF Reported
<1>2. PlannedFrom(r, order) = PlanOf(Rows(r.findings, order))
  BY DEF PlannedFrom, PlanOf
<1> QED BY <1>1, <1>2, PlanOfIs

-----------------------------------------------------------------------------
(* The plan and its report                                                 *)

LEMMA Counted ==
  ASSUME NEW l, IsList(l), NEW I \in SUBSET DOMAIN l
  PROVE  Cardinality(I) \in Nat /\ (Cardinality(I) > 0 <=> I # {}) /\ (Cardinality(I) = 0 <=> I = {})
<1>1. IsFiniteSet(I)
  BY ListFacts, FS_Subset
<1>2. Cardinality(I) \in Nat /\ (Cardinality(I) = 0 <=> I = {})
  BY <1>1, FS_CardinalityType, FS_EmptySet
<1> QED BY <1>2

LEMMA FoundIs ==
  ASSUME NEW findings, IsList(findings), NEW status
  PROVE  /\ Count(findings, status) \in Nat
         /\ Count(findings, status) > 0 <=> \E f \in ToSet(findings) : f.status = status
         /\ Count(findings, status) = 0 <=> ~ \E f \in ToSet(findings) : f.status = status
<1> DEFINE I == With(findings, status)
<1>1. I \in SUBSET DOMAIN findings /\ (I # {} <=> \E f \in ToSet(findings) : f.status = status)
  BY DEF With, ToSet
<1>2. Count(findings, status) = Cardinality(I)
  BY DEF Count
<1> HIDE DEF I
<1> QED BY <1>1, <1>2, Counted

LEMMA LevelIs ==
  ASSUME NEW as, IsList(as), NEW level
  PROVE  /\ CountLevel(as, level) \in Nat
         /\ CountLevel(as, level) > 0 <=> \E n \in DOMAIN as : as[n].automation = level
         /\ CountLevel(as, level) = 0 <=> ~ \E n \in DOMAIN as : as[n].automation = level
<1> DEFINE I == {k \in DOMAIN as : as[k].automation = level}
<1>1. I \in SUBSET DOMAIN as /\ (I # {} <=> \E n \in DOMAIN as : as[n].automation = level)
  OBVIOUS
<1>2. CountLevel(as, level) = Cardinality(I)
  BY DEF CountLevel
<1> HIDE DEF I
<1> QED BY <1>1, <1>2, Counted

\* An action is as automatic as the finding of its key lets it be.
LEMMA ActionsSay ==
  ASSUME NEW c, NEW p, NEW fs, PlanFor(p, fs, c), \A f \in fs : Finding(f, c)
  PROVE  /\ \A n \in DOMAIN p.actions : \E f \in Asked(fs) : Action(createAction(f, c), f, c)
                                          /\ p.actions[n].automation = createAction(f, c).automation
         /\ \A f \in Asked(fs) : \E n \in DOMAIN p.actions : Action(createAction(f, c), f, c)
                                          /\ p.actions[n].automation = createAction(f, c).automation
<1>1. \A f \in Asked(fs) : /\ Action(createAction(f, c), f, c)
                          /\ createAction(f, c).automation = Automation(createAction(f, c).key, c)
  BY CreatedIsAction DEF Asked, Action
<1>2. \A n \in DOMAIN p.actions : p.actions[n].automation = Automation(p.actions[n].key, c)
  BY DEF PlanFor, Actions, Planning
<1>3. \A n \in DOMAIN p.actions : \E f \in Asked(fs) : p.actions[n].key = createAction(f, c).key
  BY DEF PlanFor, Keys, AskedKeys
<1>4. \A f \in Asked(fs) : \E n \in DOMAIN p.actions : p.actions[n].key = createAction(f, c).key
  BY DEF PlanFor, Keys, AskedKeys
<1> QED BY <1>1, <1>2, <1>3, <1>4

\* The report says what the plan says.
Agreeing(r, p) ==
  /\ (r.readiness = "BLOCKED") <=> (p.outcome = "BLOCKED")
  /\ r.readiness = "READY" <=> p.actions = <<>>
  /\ ~ (Count(r.findings, "BLOCKER") > 0) =>
       (Count(r.findings, "UNKNOWN") > 0 => p.outcome = "NEEDS_VERIFICATION")
  /\ \A k \in DOMAIN r.findings :
       r.findings[k].status # "PASS" =>
         \E n \in DOMAIN p.actions : r.findings[k].requirement \in p.actions[n].findings
  /\ ToSet(p.order) = {p.actions[n].key : n \in DOMAIN p.actions}

LEMMA PlanAgrees ==
  ASSUME NEW c, NEW r, Reported(r.findings, c),
         r.readiness = determineReadiness(r.findings, r.coverage),
         NEW p, PlanFor(p, ToSet(r.findings), c)
  PROVE  Agreeing(r, p)
<1> DEFINE fs == ToSet(r.findings)
           as == p.actions
           B == Count(r.findings, "BLOCKER")
           U == Count(r.findings, "UNKNOWN")
           W == Count(r.findings, "WARNING")
<1>1. \A f \in fs : Finding(f, c)
  BY DEF Reported, ToSet
<1>2. IsList(r.findings) /\ IsList(as)
  BY DEF Reported, PlanFor, Actions
<1>3. /\ B \in Nat /\ W \in Nat /\ U \in Nat
      /\ B > 0 <=> \E f \in fs : f.status = "BLOCKER"
      /\ U > 0 <=> \E f \in fs : f.status = "UNKNOWN"
      /\ W > 0 <=> \E f \in fs : f.status = "WARNING"
  BY <1>2, FoundIs
<1>4. /\ r.readiness = "BLOCKED" <=> B > 0
      /\ r.readiness = "READY" <=> B = 0 /\ U = 0 /\ W = 0
  <2> DEFINE low == r.coverage < 50
  <2>1. r.readiness = CASE B > 0 -> "BLOCKED"
                        [] B = 0 /\ U > 0 /\ low -> "INSUFFICIENT_DATA"
                        [] B = 0 /\ W > 0 /\ ~(U > 0 /\ low) -> "REVIEW_REQUIRED"
                        [] B = 0 /\ W = 0 /\ U > 0 -> "INSUFFICIENT_DATA"
                        [] OTHER -> "READY"
    BY DEF determineReadiness
  <2> HIDE DEF low, B, U, W
  <2> QED BY <1>3, <2>1
<1> HIDE DEF B, U, W
<1>5. /\ \A n \in DOMAIN as : \E f \in Asked(fs) : Action(createAction(f, c), f, c)
                                /\ as[n].automation = createAction(f, c).automation
      /\ \A f \in Asked(fs) : \E n \in DOMAIN as : Action(createAction(f, c), f, c)
                                /\ as[n].automation = createAction(f, c).automation
  BY <1>1, ActionsSay
<1>6. /\ (\E f \in fs : f.status = "BLOCKER") <=> \E n \in DOMAIN as : as[n].automation = "BLOCKED"
      /\ (\E f \in fs : f.status = "UNKNOWN") => \E n \in DOMAIN as : as[n].automation = "UNKNOWN"
  BY <1>5 DEF Asked, Action
<1>7. /\ CountLevel(as, "BLOCKED") \in Nat /\ CountLevel(as, "UNKNOWN") \in Nat
      /\ CountLevel(as, "BLOCKED") > 0 <=> \E n \in DOMAIN as : as[n].automation = "BLOCKED"
      /\ CountLevel(as, "UNKNOWN") > 0 <=> \E n \in DOMAIN as : as[n].automation = "UNKNOWN"
  BY <1>2, LevelIs
<1>8. /\ p.outcome = "BLOCKED" <=> CountLevel(as, "BLOCKED") > 0
      /\ ~ (CountLevel(as, "BLOCKED") > 0) /\ CountLevel(as, "UNKNOWN") > 0 => p.outcome = "NEEDS_VERIFICATION"
  <2> DEFINE b == CountLevel(as, "BLOCKED")
             u == CountLevel(as, "UNKNOWN")
             rest == CountLevel(as, Review) + CountLevel(as, "MANUAL") > 0
  <2>1. p.outcome = CASE b > 0 -> "BLOCKED"
                      [] b = 0 /\ u > 0 -> "NEEDS_VERIFICATION"
                      [] b = 0 /\ u = 0 /\ rest -> "REVIEW_REQUIRED"
                      [] OTHER -> "READY_TO_APPLY"
    BY DEF PlanFor, determinePlanOutcome
  <2>2. b \in Nat /\ u \in Nat
    BY <1>7
  <2> HIDE DEF b, u, rest
  <2>3. p.outcome = "BLOCKED" <=> b > 0
    BY <2>1, <2>2
  <2>4. ~ (b > 0) /\ u > 0 => p.outcome = "NEEDS_VERIFICATION"
    BY <2>1, <2>2
  <2> QED BY <2>3, <2>4 DEF b, u
<1>9. as = <<>> <=> Asked(fs) = {}
  <2>1. Asked(fs) = {} <=> DOMAIN as = {}
    BY <1>5
  <2>2. as = <<>> <=> DOMAIN as = {}
    <3>1. as \in [1 .. Len(as) -> ToSet(as)] /\ Len(as) \in Nat /\ DOMAIN as = 1 .. Len(as)
      BY <1>2, ListFacts
    <3>2. DOMAIN as = {} => as = <<>>
      <4> SUFFICES ASSUME DOMAIN as = {} PROVE as = <<>>
        OBVIOUS
      <4>1. \A n \in Nat : 1 .. n = {} => n = 0
        OBVIOUS
      <4>2. Len(as) = 0
        BY <3>1, <4>1
      <4>3. as \in Seq(ToSet(as))
        BY <1>2 DEF IsList
      <4> HIDE DEF as
      <4> QED BY <4>2, <4>3
    <3>3. as = <<>> => DOMAIN as = {}
      OBVIOUS
    <3> QED BY <3>2, <3>3
  <2> QED BY <2>1, <2>2
<1>10. Asked(fs) = {} <=> B = 0 /\ U = 0 /\ W = 0
  <2>1. \A f \in fs : f.status \in Statuses
    BY <1>1 DEF Finding
  <2> QED BY <1>3, <2>1 DEF Asked, Statuses
<1>11. \A k \in DOMAIN r.findings :
         r.findings[k].status # "PASS" =>
           \E n \in DOMAIN as : r.findings[k].requirement \in as[n].findings
  <2>1. \A k \in DOMAIN r.findings : r.findings[k].status # "PASS" => r.findings[k] \in Asked(fs)
    BY DEF Asked, ToSet
  <2> QED BY <2>1 DEF PlanFor
<1>12. ToSet(p.order) = {as[n].key : n \in DOMAIN as}
  BY DEF PlanFor, Keys
<1>13. (r.readiness = "BLOCKED") <=> (p.outcome = "BLOCKED")
  BY <1>3, <1>4, <1>6, <1>7, <1>8
<1>14. r.readiness = "READY" <=> as = <<>>
  BY <1>4, <1>9, <1>10
<1>15. ~ (B > 0) => (U > 0 => p.outcome = "NEEDS_VERIFICATION")
  BY <1>3, <1>6, <1>7, <1>8
<1> HIDE DEF fs
<1> QED BY <1>11, <1>12, <1>13, <1>14, <1>15 DEF Agreeing, B, U

-----------------------------------------------------------------------------
(* The text after the accepted changes                                     *)

IsPatch(patch) == "text" \in DOMAIN patch /\ IsList(patch.text)

LEMMA SkippedIs == ASSUME NEW code PROVE IsPatch(Skip(code))
BY DEF Skip, IsPatch, IsList

LEMMA PatchIs ==
  ASSUME NEW text, IsList(text), NEW n, NEW r PROVE IsPatch(Patch(text, n, r))
<1> DEFINE t == [text EXCEPT ![n].value = Replaced(r.source, r.target, text[n].value)]
<1>1. Patch(text, n, r).text = t /\ "text" \in DOMAIN Patch(text, n, r)
  BY DEF Patch
<1>2. t = [k \in DOMAIN text |-> t[k]]
  OBVIOUS
<1> HIDE DEF t
<1>3. IsList(t)
  BY <1>2, MappedIs
<1> QED BY <1>1, <1>3 DEF IsPatch

\* What a patcher returns: a reason, or the text with the value of one line replaced.
Skipped(patch) == \E code : code # None /\ patch = Skip(code)
Replacing(patch, text, target) == \E n, r : r.target = target /\ patch = Patch(text, n, r)
Returned(patch, text, target) == Skipped(patch) \/ Replacing(patch, text, target)

LEMMA PatchersReturn ==
  ASSUME NEW a, NEW text, NEW r, NEW where
  PROVE  /\ Returned(envTemplatePatcher(r, where, text), text, r.target)
         /\ Returned(jsonConfigPatcher(r, where, text), text, r.target)
         /\ Returned(tomlConfigPatcher(r, where, text), text, r.target)
         /\ Returned(patchScript(a, r, where, text), text, r.target)
         /\ Returned(solidityAddressPatcher(r, where, text), text, r.target)
<1>1. \A n : Returned(Patch(text, n, r), text, r.target)
  BY DEF Returned, Replacing
<1>2. \A code \in {"SOURCE_MISMATCH", "PATCH_PRECONDITION_FAILED"} : Returned(Skip(code), text, r.target)
  BY DEF Returned, Skipped, None
<1>3. Returned(envTemplatePatcher(r, where, text), text, r.target)
  BY <1>1, <1>2 DEF envTemplatePatcher
<1>4. Returned(jsonConfigPatcher(r, where, text), text, r.target)
  BY <1>1, <1>2 DEF jsonConfigPatcher
<1>5. \A several \in {"SOURCE_MISMATCH", "PATCH_PRECONDITION_FAILED"} :
        Returned(lineValuePatcher(r, where, text, several), text, r.target)
  BY <1>1, <1>2 DEF lineValuePatcher
<1>6. Returned(patchScript(a, r, where, text), text, r.target)
  <2> DEFINE property(l) == l.kind = "chainId" /\ l.name \in {"chainId", "chain_id", "id"}
             numeric(l) == l.kind \in {"chainId", "number"}
             hits == {n \in DOMAIN text :
                        /\ text[n].value = r.source
                        /\ a.category = "CHAIN_ID" /\ numeric(text[n]) => property(text[n])}
             only == CHOOSE n \in hits : TRUE
  <2>1. patchScript(a, r, where, text) =
          CASE Cardinality(hits) = 1                   -> Patch(text, only, r)
            [] Cardinality(hits) # 1 /\ where \in hits -> Patch(text, where, r)
            [] hits = {}                               -> Skip("SOURCE_MISMATCH")
            [] OTHER                                   -> Skip("PATCH_PRECONDITION_FAILED")
    BY DEF patchScript
  <2> HIDE DEF only, hits
  <2> QED BY <1>1, <1>2, <2>1
<1> QED BY <1>3, <1>4, <1>5, <1>6 DEF tomlConfigPatcher, solidityAddressPatcher

LEMMA GeneratedReturns ==
  ASSUME NEW a, NEW i, NEW text PROVE Returned(generatePatch(a, i, text), text, a.target)
<1> DEFINE f == Files[i]
           where == EvidenceLine(a, i)
           r == CHOOSE r \in extractReplaceable(a) : TRUE
           patched ==
             IF extractReplaceable(a) = {} THEN Skip("PATCH_PRECONDITION_FAILED")
             ELSE CASE f.path \in SafeTemplates -> envTemplatePatcher(r, where, text)
                    [] f.category = "JSON"      -> jsonConfigPatcher(r, where, text)
                    [] f.category = "TOML"      -> tomlConfigPatcher(r, where, text)
                    [] f.category \in Scripts   -> patchScript(a, r, where, text)
                    [] OTHER                    -> solidityAddressPatcher(r, where, text)
           supported == \/ f.path \in SafeTemplates
                        \/ f.category \in ({"JSON", "TOML"} \cup Scripts)
                        \/ IsSolidity(f) /\ a.category = "TOKEN_ADDRESS"
<1>1. generatePatch(a, i, text) =
        CASE a.automation # SafeAutomatic -> Skip("CHANGESET_NOT_ELIGIBLE")
          [] isWethAction(a) \/ a.category \notin PATCHABLE_CATEGORIES -> Skip("PATCHER_UNSUPPORTED")
          [] f.path \in UnsafeEnv -> Skip("UNSAFE_ENV_FILE")
          [] "binary" \in f.traits \/ ~supported -> Skip("PATCHER_UNSUPPORTED")
          [] OTHER -> IF NoContentChange(patched, text) THEN Skip("SOURCE_MISMATCH") ELSE patched
  BY DEF generatePatch
<1>2. \A code \in {"CHANGESET_NOT_ELIGIBLE", "PATCHER_UNSUPPORTED", "UNSAFE_ENV_FILE", "SOURCE_MISMATCH",
                   "PATCH_PRECONDITION_FAILED"} : Returned(Skip(code), text, a.target)
  BY DEF Returned, Skipped, None
<1>3. extractReplaceable(a) # {} => r.target = a.target
  BY DEF extractReplaceable
<1> HIDE DEF f, where, r, supported
<1>4. Returned(patched, text, a.target)
  <2>1. CASE extractReplaceable(a) = {}
    BY <1>2, <2>1
  <2>2. CASE extractReplaceable(a) # {}
    BY <1>3, <2>2, PatchersReturn
  <2> QED BY <2>1, <2>2
<1> HIDE DEF patched
<1> QED BY <1>1, <1>2, <1>4

\* Whichever patcher is asked, the number of lines is left alone.
LEMMA GeneratedPatchIs ==
  ASSUME NEW a, NEW i, NEW text, IsList(text) PROVE IsPatch(generatePatch(a, i, text))
<1>1. CASE Skipped(generatePatch(a, i, text))
  BY <1>1, SkippedIs DEF Skipped
<1>2. CASE Replacing(generatePatch(a, i, text), text, a.target)
  BY <1>2, PatchIs DEF Replacing
<1> QED BY <1>1, <1>2, GeneratedReturns DEF Returned

LEMMA WorkingTextIs ==
  ASSUME NEW change, NEW text, IsList(text) PROVE IsList(applyPatchToWorkingText(change, text).text)
<1>1. \E a, i : LET patch == generatePatch(a, i, text)
                IN applyPatchToWorkingText(change, text) \in {patch, [patch EXCEPT !.code = None, !.text = text]}
  BY DEF applyPatchToWorkingText
<1>2. PICK a, i : LET patch == generatePatch(a, i, text)
                  IN applyPatchToWorkingText(change, text) \in {patch, [patch EXCEPT !.code = None, !.text = text]}
  BY <1>1
<1> DEFINE patch == generatePatch(a, i, text)
<1>3. IsPatch(patch)
  BY GeneratedPatchIs
<1> HIDE DEF patch
<1>4. [patch EXCEPT !.code = None, !.text = text].text = text
  BY <1>3 DEF IsPatch
<1>5. applyPatchToWorkingText(change, text) \in {patch, [patch EXCEPT !.code = None, !.text = text]}
  BY <1>2 DEF patch
<1> QED BY <1>3, <1>4, <1>5 DEF IsPatch

\* The state of a finalization, and one change more.
Working(acc) == DOMAIN acc = {"ok", "text"} /\ Shape(acc.text)

WithChange(acc, change) ==
  Applied(acc, change.file, applyPatchToWorkingText(change, acc.text[change.file]))

LEMMA WithChangeIs == ASSUME NEW acc, Working(acc), NEW change PROVE Working(WithChange(acc, change))
<1> DEFINE i == change.file
           patch == applyPatchToWorkingText(change, acc.text[i])
           t == [acc.text EXCEPT ![i] = patch.text]
<1>1. WithChange(acc, change) = IF ~acc.ok \/ patch.code # None THEN [acc EXCEPT !.ok = FALSE]
                                ELSE [acc EXCEPT !.text[i] = patch.text]
  BY DEF WithChange, Applied
<1>2. i \in DOMAIN acc.text => IsList(patch.text)
  BY WorkingTextIs DEF Working, Shape
<1> HIDE DEF patch, i
<1>3. Shape(t)
  <2>1. DOMAIN t = DOMAIN acc.text
    OBVIOUS
  <2>2. \A k \in DOMAIN acc.text : t[k] = acc.text[k] \/ (k = i /\ t[k] = patch.text)
    OBVIOUS
  <2> HIDE DEF t
  <2> QED BY <1>2, <2>1, <2>2 DEF Working, Shape
<1>4. DOMAIN [acc EXCEPT !.ok = FALSE] = {"ok", "text"} /\ [acc EXCEPT !.ok = FALSE].text = acc.text
  BY DEF Working
<1>5. DOMAIN [acc EXCEPT !.text[i] = patch.text] = {"ok", "text"} /\ [acc EXCEPT !.text[i] = patch.text].text = t
  BY DEF Working
<1> HIDE DEF t
<1> QED BY <1>1, <1>3, <1>4, <1>5 DEF Working

\* Start, and one change more at a time.
Applying(applied, order) ==
  \A m \in 0 .. Len(order) :
    applied[m] = IF m = 0 THEN [ok |-> TRUE, text |-> repo]
                 ELSE WithChange(applied[m - 1], changes[order[m]])

LEMMA Unrolled ==
  ASSUME NEW order, IsList(order)
  PROVE  \E applied : Applying(applied, order) /\ Apply(order) = applied[Len(order)]
<1> DEFINE N == Len(order)
           start == [ok |-> TRUE, text |-> repo]
           Is(f, n) == f = [m \in 0 .. n |-> IF m = 0 THEN start ELSE WithChange(f[m - 1], changes[order[m]])]
           applied == CHOOSE f : Is(f, N)
<1>1. Apply(order) = applied[N]
  BY DEF Apply, WithChange
<1>2. N \in Nat
  BY ListFacts
<1> HIDE DEF N, start, applied
<1>3. \E f : Is(f, N)
  <2> DEFINE P == {n \in 0 .. N : \E f : Is(f, n)}
  <2>1. 0 \in P
    <3> DEFINE f == [m \in 0 .. 0 |-> start]
    <3>1. Is(f, 0)
      OBVIOUS
    <3>2. 0 \in 0 .. N
      BY <1>2
    <3> HIDE DEF f, Is
    <3> QED BY <3>1, <3>2
  <2>2. ASSUME NEW n \in 1 .. N, n - 1 \in P PROVE n \in P
    <3>1. PICK f : Is(f, n - 1)
      BY <2>2
    <3> DEFINE x == WithChange(f[n - 1], changes[order[n]])
               g == [m \in 0 .. n |-> IF m = n THEN x ELSE f[m]]
    <3>2. \A m \in 0 .. n : m = n \/ m \in 0 .. n - 1
      BY <1>2
    <3>3. \A m \in 0 .. n - 1 : g[m] = f[m] /\ m \in 0 .. n /\ m # n
      BY <1>2
    <3>4. \A m \in 0 .. n - 1 : f[m] = IF m = 0 THEN start ELSE WithChange(f[m - 1], changes[order[m]])
      BY <3>1
    <3>5. \A m \in 0 .. n : m # 0 => m - 1 \in 0 .. n - 1
      BY <1>2
    <3>6. g[n] = x /\ DOMAIN g = 0 .. n /\ n # 0 /\ n \in 0 .. n
      BY <1>2
    <3>7. g = [m \in DOMAIN g |-> g[m]]
      OBVIOUS
    <3> HIDE DEF g
    <3>8. \A m \in 0 .. n : g[m] = IF m = 0 THEN start ELSE WithChange(g[m - 1], changes[order[m]])
      BY <3>2, <3>3, <3>4, <3>5, <3>6
    <3>9. Is(g, n)
      BY <3>6, <3>7, <3>8
    <3>10. n \in 0 .. N
      BY <1>2
    <3> HIDE DEF Is
    <3> QED BY <3>9, <3>10
  <2> HIDE DEF P
  <2>3. N \in 0 .. N
    BY <1>2
  <2>4. N \in P
    BY <1>2, <2>1, <2>2, <2>3, Induct
  <2> QED BY <2>4 DEF P
<1>4. Is(applied, N)
  BY <1>3 DEF applied
<1>5. \A m \in 0 .. N : applied[m] = IF m = 0 THEN start ELSE WithChange(applied[m - 1], changes[order[m]])
  BY <1>4
<1> HIDE DEF Is
<1>6. Applying(applied, order)
  BY <1>5 DEF Applying, N, start
<1> QED BY <1>1, <1>6 DEF N

LEMMA ApplyIs ==
  ASSUME Shape(repo), NEW order, IsList(order) PROVE Shape(Apply(order).text)
<1> DEFINE N == Len(order)
<1>1. PICK applied : Applying(applied, order) /\ Apply(order) = applied[N]
  BY Unrolled
<1>2. N \in Nat
  BY ListFacts
<1>3. \A m \in 0 .. N : applied[m] = IF m = 0 THEN [ok |-> TRUE, text |-> repo]
                                     ELSE WithChange(applied[m - 1], changes[order[m]])
  BY <1>1 DEF Applying
<1> HIDE DEF N
<1> DEFINE P == {n \in 0 .. N : Working(applied[n])}
<1>4. 0 \in P
  <2>1. 0 \in 0 .. N
    BY <1>2
  <2>2. Working([ok |-> TRUE, text |-> repo])
    BY DEF Working
  <2> QED BY <1>3, <2>1, <2>2
<1>5. ASSUME NEW n \in 1 .. N, n - 1 \in P PROVE n \in P
  <2>1. n \in 0 .. N /\ n # 0
    BY <1>2
  <2>2. applied[n] = WithChange(applied[n - 1], changes[order[n]])
    BY <1>3, <2>1
  <2> QED BY <1>5, <2>1, <2>2, WithChangeIs
<1> HIDE DEF P
<1>6. N \in P
  <2>1. \A n \in 0 .. N : n \in P
    BY <1>2, <1>4, <1>5, Induct
  <2> QED BY <1>2, <2>1
<1> QED BY <1>1, <1>6 DEF Working, P

-----------------------------------------------------------------------------
(* The inductive invariant                                                 *)

\* What the engines stored at each stage: the requirements are a list, the report is one of
\* findings told apart by what they say, the plan is made from just those.
PipelineInv ==
  /\ Shape(repo)
  /\ stage \in {"SCANNED", "EVALUATED", "PLANNED"} => IsList(requirements)
  /\ stage \in {"EVALUATED", "PLANNED"} =>
       /\ Reported(report.findings, context)
       /\ report.readiness = determineReadiness(report.findings, report.coverage)
  /\ stage = "PLANNED" => PlanFor(plan, ToSet(report.findings), context)
  /\ stage \in {"READY_FOR_REVIEW", "DECIDED"} => IsList(changes)

\* What is reported of requirements read in some order.
ReportOf(rows) == evaluateCompatibility(context, rows, hasSolidityContracts(repo))

LEMMA ReportOfIs ==
  ASSUME IsList(requirements), NEW rows \in Shuffles(requirements)
  PROVE  LET r == ReportOf(rows)
         IN /\ Reported(r.findings, context)
            /\ Kinds(r.findings) =
                 {Kind(f) : f \in Made(context, ToSet(requirements), hasSolidityContracts(repo))}
            /\ r.score = scoreFindings(r.findings).score
            /\ r.coverage = scoreFindings(r.findings).coverage
            /\ r.readiness = determineReadiness(r.findings, r.coverage)
<1> DEFINE h == hasSolidityContracts(repo)
<1>1. IsList(rows) /\ ToSet(rows) = ToSet(requirements)
  BY ShufflesAre
<1>2. ReportOf(rows) = evaluateCompatibility(context, rows, h)
  BY DEF ReportOf
<1> HIDE DEF h
<1> DEFINE r == evaluateCompatibility(context, rows, h)
<1>3. /\ Reported(r.findings, context)
      /\ Kinds(r.findings) = {Kind(f) : f \in Made(context, ToSet(rows), h)}
      /\ r.score = scoreFindings(r.findings).score
      /\ r.coverage = scoreFindings(r.findings).coverage
      /\ r.readiness = determineReadiness(r.findings, r.coverage)
  BY <1>1, ReportIs
<1> HIDE DEF r
<1> QED BY <1>1, <1>2, <1>3 DEF r, h

LEMMA EvaluatedIs ==
  ASSUME IsList(requirements), NEW order
  PROVE  LET r == EvaluatedFrom(order)
         IN /\ Reported(r.findings, context)
            /\ r.readiness = determineReadiness(r.findings, r.coverage)
<1>1. EvaluatedFrom(order) = ReportOf(Rows(requirements, order))
  BY DEF EvaluatedFrom, ReportOf
<1> QED BY <1>1, RowsAre, ReportOfIs

LEMMA InitInv == Init => PipelineInv
<1> SUFFICES ASSUME Init PROVE PipelineInv
  OBVIOUS
<1>1. Shape(repo)
  BY RepositoriesAssumption DEF Init, Shape, IsList
<1> QED BY <1>1 DEF Init, PipelineInv

LEMMA NextInv == PipelineInv /\ [Next]_vars => PipelineInv'
<1> SUFFICES ASSUME PipelineInv, [Next]_vars PROVE PipelineInv'
  OBVIOUS
<1>1. CASE Scan
  <2>1. PICK broken \in SUBSET Failing : requirements' = Identified(analyzeRepository(repo, broken))
    BY <1>1 DEF Scan
  <2>2. Shape(repo) /\ repo' = repo /\ stage' = "SCANNED"
    BY <1>1 DEF Scan, PipelineInv
  <2>3. IsList(requirements')
    BY <2>1, <2>2, AnalysisIsListed
  <2>4. Shape(repo')
    BY <2>2
  <2> QED BY <2>2, <2>3, <2>4 DEF PipelineInv
<1>2. CASE EvaluateRun
  <2>1. PICK order \in Orders : report' = EvaluatedFrom(order)
    BY <1>2 DEF EvaluateRun
  <2>2. /\ Shape(repo) /\ IsList(requirements) /\ stage' = "EVALUATED"
        /\ repo' = repo /\ context' = context /\ requirements' = requirements
    BY <1>2 DEF EvaluateRun, PipelineInv
  <2>3. /\ Reported(report'.findings, context)
        /\ report'.readiness = determineReadiness(report'.findings, report'.coverage)
    BY <2>1, <2>2, EvaluatedIs
  <2>4. Shape(repo') /\ IsList(requirements') /\ Reported(report'.findings, context')
    BY <2>2, <2>3
  <2> QED BY <2>2, <2>3, <2>4 DEF PipelineInv
<1>3. CASE PlanMigration
  <2>1. PICK order \in Orders : plan' = PlannedFrom(report, order)
    BY <1>3 DEF PlanMigration
  <2>2. /\ Shape(repo) /\ IsList(requirements) /\ stage' = "PLANNED" /\ Reported(report.findings, context)
        /\ report.readiness = determineReadiness(report.findings, report.coverage)
        /\ repo' = repo /\ context' = context /\ requirements' = requirements /\ report' = report
    BY <1>3 DEF PlanMigration, PipelineInv
  <2>3. PlanFor(plan', ToSet(report.findings), context)
    BY <2>1, <2>2, PlannedIs
  <2>4. /\ Shape(repo') /\ IsList(requirements') /\ Reported(report'.findings, context')
        /\ report'.readiness = determineReadiness(report'.findings, report'.coverage)
        /\ PlanFor(plan', ToSet(report'.findings), context')
    BY <2>2, <2>3
  <2> QED BY <2>2, <2>4 DEF PipelineInv
<1>4. CASE Generate
  <2> DEFINE safe == At(plan.actions, {k \in DOMAIN plan.actions : plan.actions[k].automation = SafeAutomatic})
  <2>1. /\ Shape(repo) /\ repo' = repo /\ stage' = "READY_FOR_REVIEW" /\ IsList(plan.actions)
        /\ changes' = GeneratedFrom(plan)
    BY <1>4 DEF Generate, PipelineInv, PlanFor, Actions
  <2>2. changes' = [k \in DOMAIN safe |-> changes'[k]]
    BY <2>1 DEF GeneratedFrom, Where
  <2>3. IsList(safe)
    BY <2>1, AtIs
  <2> HIDE DEF safe
  <2>4. IsList(changes')
    BY <2>2, <2>3, MappedIs
  <2>5. Shape(repo')
    BY <2>1
  <2> QED BY <2>1, <2>4, <2>5 DEF PipelineInv
<1>5. CASE Decide
  <2>1. /\ Shape(repo) /\ repo' = repo /\ stage' = "DECIDED" /\ IsList(changes)
        /\ changes' = [k \in DOMAIN changes |-> changes'[k]]
    BY <1>5 DEF Decide, PipelineInv
  <2>2. IsList(changes')
    BY <2>1, MappedIs
  <2>3. Shape(repo')
    BY <2>1
  <2> QED BY <2>1, <2>2, <2>3 DEF PipelineInv
<1>6. CASE Finalize
  <2>1. Shape(repo) /\ IsList(changes) /\ stage' \in {"FINALIZED", "FAILED"}
    BY <1>6 DEF Finalize, PipelineInv
  <2>2. PICK order \in SetToSeqs(Accepted) : repo' = Apply(order).text \/ repo' = repo
    BY <1>6 DEF Finalize
  <2>3. IsList(order)
    <3>1. Cardinality(Accepted) \in Nat
      <4>1. Accepted \in SUBSET DOMAIN changes
        BY DEF Accepted
      <4> QED BY <2>1, <4>1, Counted
    <3>2. order \in [1 .. Cardinality(Accepted) -> Accepted]
      BY DEF SetToSeqs
    <3> QED BY <3>1, <3>2, ListOf
  <2>4. Shape(repo')
    BY <2>1, <2>2, <2>3, ApplyIs
  <2> QED BY <2>1, <2>4 DEF PipelineInv
<1>7. CASE MigrateAgain
  <2>1. Shape(repo) /\ repo' = repo /\ stage' = "INGESTED"
    BY <1>7 DEF MigrateAgain, PipelineInv
  <2>2. Shape(repo')
    BY <2>1
  <2> QED BY <2>1, <2>2 DEF PipelineInv
<1>8. CASE UNCHANGED vars
  BY <1>8 DEF PipelineInv, vars
<1> QED BY <1>1, <1>2, <1>3, <1>4, <1>5, <1>6, <1>7, <1>8 DEF Next

\* What the engines store is what the next one expects, whatever the repository, the chains and
\* the detectors that throw.
THEOREM PipelineIsInvariant == Spec => []PipelineInv
BY InitInv, NextInv, PTL DEF Spec

-----------------------------------------------------------------------------
(* The plan agrees with the report                                         *)

LEMMA AgreesLemma == PipelineInv => PlanAgreesWithReport
<1> SUFFICES ASSUME PipelineInv, stage = "PLANNED" PROVE Agreeing(report, plan)
  BY DEF Agreeing, PlanAgreesWithReport, Found
<1>1. /\ Reported(report.findings, context)
      /\ report.readiness = determineReadiness(report.findings, report.coverage)
      /\ PlanFor(plan, ToSet(report.findings), context)
  BY DEF PipelineInv
<1> QED BY <1>1, PlanAgrees

\* The report and its plan say the same of a migration, and the plan covers every requirement that
\* did not pass and can be ordered (determineReadiness, determinePlanOutcome, mergeDrafts,
\* topologicalOrder).
THEOREM PlansAgree == Spec => []PlanAgreesWithReport
BY PipelineIsInvariant, AgreesLemma, PTL

-----------------------------------------------------------------------------
(* The verdict does not depend on the order of rows                        *)

LEMMA SameKeys ==
  ASSUME NEW c, NEW f, NEW g, Reported(f, c), Reported(g, c), Kinds(f) = Kinds(g)
  PROVE  AskedKeys(ToSet(f), c) \subseteq AskedKeys(ToSet(g), c)
<1> SUFFICES ASSUME NEW x \in Asked(ToSet(f))
             PROVE  createAction(x, c).key \in AskedKeys(ToSet(g), c)
  BY DEF AskedKeys
<1>1. PICK j \in DOMAIN f : f[j] = x
  BY DEF Asked, ToSet
<1>2. Kind(x) \in Kinds(g)
  BY <1>1 DEF Kinds
<1>3. PICK k \in DOMAIN g : Kind(g[k]) = Kind(x)
  BY <1>2 DEF Kinds
<1>4. SameFinding(x, g[k])
  BY <1>3, SaidTheSame
<1>5. x.status # "PASS" /\ Finding(x, c) /\ Finding(g[k], c)
  BY <1>1 DEF Asked, Reported
<1>6. createAction(x, c).key = createAction(g[k], c).key
  BY <1>4, <1>5, KeyIsSaid
<1>7. g[k] \in Asked(ToSet(g))
  BY <1>4, <1>5 DEF Asked, ToSet, SameFinding
<1> QED BY <1>6, <1>7 DEF AskedKeys

\* As many actions have an automation as there are keys that give it.
LEMMA KeysCounted ==
  ASSUME NEW c, NEW as, Actions(as, c)
  PROVE  /\ Len(as) = Cardinality(Keys(as))
         /\ \A level : CountLevel(as, level) = Cardinality({k \in Keys(as) : Automation(k, c) = level})
<1> DEFINE key == [n \in DOMAIN as |-> as[n].key]
<1>1. IsFiniteSet(DOMAIN as) /\ Cardinality(DOMAIN as) = Len(as)
  BY ListFacts DEF Actions
<1>2. DOMAIN key = DOMAIN as /\ \A n \in DOMAIN as : key[n] = as[n].key
  OBVIOUS
<1> HIDE DEF key
<1>3. \A I \in SUBSET DOMAIN as : Cardinality(I) = Cardinality({key[n] : n \in I})
  <2> TAKE I \in SUBSET DOMAIN as
  <2>1. IsFiniteSet(I)
    BY <1>1, FS_Subset
  <2>2. \A m, n \in I : key[m] = key[n] => m = n
    BY <1>2 DEF Actions
  <2>3. I \subseteq DOMAIN key
    BY <1>2
  <2> QED BY <2>1, <2>2, <2>3, KindsCounted
<1>4. Len(as) = Cardinality(Keys(as))
  <2>1. {key[n] : n \in DOMAIN as} = Keys(as)
    BY <1>2 DEF Keys
  <2>2. Cardinality(DOMAIN as) = Cardinality({key[n] : n \in DOMAIN as})
    BY <1>3
  <2> QED BY <1>1, <2>1, <2>2
<1>5. ASSUME NEW level
      PROVE  CountLevel(as, level) = Cardinality({k \in Keys(as) : Automation(k, c) = level})
  <2> DEFINE I == {n \in DOMAIN as : as[n].automation = level}
             K == {k \in Keys(as) : Automation(k, c) = level}
  <2>1. \A n \in DOMAIN as : as[n].automation = Automation(as[n].key, c)
    BY DEF Actions, Planning
  <2>2. {key[n] : n \in I} = K
    BY <1>2, <2>1 DEF Keys
  <2>3. CountLevel(as, level) = Cardinality(I)
    BY DEF CountLevel
  <2>4. I \in SUBSET DOMAIN as
    OBVIOUS
  <2> HIDE DEF I, K
  <2>5. Cardinality(I) = Cardinality({key[n] : n \in I})
    BY <1>3, <2>4
  <2> QED BY <2>2, <2>3, <2>5 DEF K
<1> QED BY <1>4, <1>5

\* Plans with the same keys tell the developer the same.
LEMMA SamePlan ==
  ASSUME NEW c, NEW p, NEW q, NEW fs, NEW gs, PlanFor(p, fs, c), PlanFor(q, gs, c),
         AskedKeys(fs, c) = AskedKeys(gs, c)
  PROVE  /\ p.outcome = q.outcome /\ p.autoFixable = q.autoFixable
         /\ {<<a.key, a.automation>> : a \in ToSet(p.actions)} =
              {<<a.key, a.automation>> : a \in ToSet(q.actions)}
<1> DEFINE s == p.actions
           t == q.actions
<1>1. Actions(s, c) /\ Actions(t, c) /\ Keys(s) = Keys(t)
  BY DEF PlanFor
<1>2. /\ p.outcome = determinePlanOutcome(s) /\ p.autoFixable = autoFixablePercent(s)
      /\ q.outcome = determinePlanOutcome(t) /\ q.autoFixable = autoFixablePercent(t)
  BY DEF PlanFor
<1> HIDE DEF s, t
<1>3. Len(s) = Len(t)
  BY <1>1, KeysCounted
<1>4. \A level : CountLevel(s, level) = CountLevel(t, level)
  <2> TAKE level
  <2> DEFINE K == {k \in Keys(s) : Automation(k, c) = level}
  <2>1. CountLevel(s, level) = Cardinality(K)
    BY <1>1, KeysCounted
  <2>2. K = {k \in Keys(t) : Automation(k, c) = level}
    BY <1>1
  <2> HIDE DEF K
  <2>3. CountLevel(t, level) = Cardinality(K)
    BY <1>1, <2>2, KeysCounted
  <2> QED BY <2>1, <2>3
<1>5. determinePlanOutcome(s) = determinePlanOutcome(t)
  BY <1>4 DEF determinePlanOutcome
<1>6. autoFixablePercent(s) = autoFixablePercent(t)
  BY <1>3, <1>4 DEF autoFixablePercent
<1>7. \A as : Actions(as, c) =>
        {<<a.key, a.automation>> : a \in ToSet(as)} = {<<k, Automation(k, c)>> : k \in Keys(as)}
  <2> SUFFICES ASSUME NEW as, Actions(as, c)
               PROVE  {<<a.key, a.automation>> : a \in ToSet(as)} =
                        {<<k, Automation(k, c)>> : k \in Keys(as)}
    OBVIOUS
  <2>1. \A a \in ToSet(as) : a.key \in Keys(as) /\ a.automation = Automation(a.key, c)
    BY DEF ToSet, Keys, Actions, Planning
  <2>2. \A k \in Keys(as) : \E a \in ToSet(as) : a.key = k
    BY DEF ToSet, Keys
  <2> DEFINE S == {<<a.key, a.automation>> : a \in ToSet(as)}
             T == {<<k, Automation(k, c)>> : k \in Keys(as)}
  <2>3. \A a \in ToSet(as) : <<a.key, a.automation>> \in T
    BY <2>1
  <2>4. \A k \in Keys(as) : <<k, Automation(k, c)>> \in S
    BY <2>1, <2>2
  <2>5. S \subseteq T
    BY <2>3
  <2>6. T \subseteq S
    BY <2>4
  <2> QED BY <2>5, <2>6
<1>8. {<<a.key, a.automation>> : a \in ToSet(s)} = {<<a.key, a.automation>> : a \in ToSet(t)}
  <2>1. {<<a.key, a.automation>> : a \in ToSet(s)} = {<<k, Automation(k, c)>> : k \in Keys(s)}
    BY <1>1, <1>7
  <2>2. {<<a.key, a.automation>> : a \in ToSet(t)} = {<<k, Automation(k, c)>> : k \in Keys(t)}
    BY <1>1, <1>7
  <2>3. {<<k, Automation(k, c)>> : k \in Keys(s)} = {<<k, Automation(k, c)>> : k \in Keys(t)}
    BY <1>1
  <2> QED BY <2>1, <2>2, <2>3
<1> QED BY <1>2, <1>5, <1>6, <1>8 DEF s, t

\* What the developer is told when requirements and then findings are read in some order.
VerdictOf(rows, read) == Told(ReportOf(rows), PlanOf(read))

LEMMA SameVerdict ==
  ASSUME IsList(requirements), NEW x \in Shuffles(requirements), NEW y \in Shuffles(requirements),
         NEW m \in Shuffles(ReportOf(x).findings), NEW n \in Shuffles(ReportOf(y).findings)
  PROVE  VerdictOf(x, m) = VerdictOf(y, n)
<1> DEFINE r == ReportOf(x)
           s == ReportOf(y)
           p == PlanOf(m)
           q == PlanOf(n)
           K == {Kind(f) : f \in Made(context, ToSet(requirements), hasSolidityContracts(repo))}
<1>1. /\ Reported(r.findings, context) /\ Kinds(r.findings) = K
      /\ r.score = scoreFindings(r.findings).score
      /\ r.coverage = scoreFindings(r.findings).coverage
      /\ r.readiness = determineReadiness(r.findings, r.coverage)
  BY ReportOfIs
<1>2. /\ Reported(s.findings, context) /\ Kinds(s.findings) = K
      /\ s.score = scoreFindings(s.findings).score
      /\ s.coverage = scoreFindings(s.findings).coverage
      /\ s.readiness = determineReadiness(s.findings, s.coverage)
  BY ReportOfIs
<1>9. m \in Shuffles(r.findings) /\ n \in Shuffles(s.findings)
  OBVIOUS
<1> HIDE DEF r, s, K
<1>3. /\ scoreFindings(r.findings) = scoreFindings(s.findings)
      /\ \A coverage : determineReadiness(r.findings, coverage) = determineReadiness(s.findings, coverage)
  BY <1>1, <1>2, SameScore
<1>4. r.score = s.score /\ r.coverage = s.coverage /\ r.readiness = s.readiness
  BY <1>1, <1>2, <1>3
<1>5. AskedKeys(ToSet(r.findings), context) = AskedKeys(ToSet(s.findings), context)
  <2>1. Kinds(r.findings) = Kinds(s.findings)
    BY <1>1, <1>2
  <2>2. AskedKeys(ToSet(r.findings), context) \subseteq AskedKeys(ToSet(s.findings), context)
    BY <1>1, <1>2, <2>1, SameKeys
  <2>3. AskedKeys(ToSet(s.findings), context) \subseteq AskedKeys(ToSet(r.findings), context)
    BY <1>1, <1>2, <2>1, SameKeys
  <2> QED BY <2>2, <2>3
<1>6. PlanFor(p, ToSet(r.findings), context) /\ PlanFor(q, ToSet(s.findings), context)
  BY <1>1, <1>2, <1>9, PlanOfIs
<1> HIDE DEF p, q
<1>7. /\ p.outcome = q.outcome /\ p.autoFixable = q.autoFixable
      /\ {<<a.key, a.automation>> : a \in ToSet(p.actions)} =
           {<<a.key, a.automation>> : a \in ToSet(q.actions)}
  BY <1>5, <1>6, SamePlan
<1>8. Told(r, p) = Told(s, q)
  BY <1>4, <1>7 DEF Told
<1> QED BY <1>8 DEF VerdictOf, p, q, r, s

\* Whatever orders the database returns requirements and findings in, the developer is told the
\* same: more than the run can check, which reads rows as written or reversed.
AnyOrderTellsTheSame ==
  stage = "SCANNED" =>
    \A x, y \in Shuffles(requirements) :
      \A m \in Shuffles(ReportOf(x).findings), n \in Shuffles(ReportOf(y).findings) :
        VerdictOf(x, m) = VerdictOf(y, n)

LEMMA AnyOrderLemma == PipelineInv => AnyOrderTellsTheSame
BY SameVerdict DEF PipelineInv, AnyOrderTellsTheSame

\* The score, the coverage, the verdict and what the plan would do are the same for every
\* permutation of the requirements and of the findings (dedupeFindings, scoreFindings, mergeDrafts).
THEOREM OrderDoesNotMatter == Spec => []AnyOrderTellsTheSame
BY PipelineIsInvariant, AnyOrderLemma, PTL

LEMMA StableLemma == PipelineInv => VerdictIsStable
<1> SUFFICES ASSUME PipelineInv, stage = "SCANNED" PROVE Cardinality(Verdicts) = 1
  BY DEF VerdictIsStable
<1> DEFINE v == Planned(EvaluatedFrom("reversed"), "reversed")
<1>1. IsList(requirements)
  BY DEF PipelineInv
<1>2. ASSUME NEW o, NEW p
      PROVE  LET x == Rows(requirements, o)
                 m == Rows(ReportOf(x).findings, p)
             IN /\ x \in Shuffles(requirements) /\ m \in Shuffles(ReportOf(x).findings)
                /\ Planned(EvaluatedFrom(o), p) = VerdictOf(x, m)
  <2> DEFINE x == Rows(requirements, o)
             m == Rows(ReportOf(x).findings, p)
  <2>1. x \in Shuffles(requirements)
    BY <1>1, RowsAre
  <2>2. Planned(EvaluatedFrom(o), p) = VerdictOf(x, m)
    BY DEF Planned, EvaluatedFrom, PlannedFrom, VerdictOf, ReportOf, PlanOf
  <2> HIDE DEF x
  <2>3. Reported(ReportOf(x).findings, context)
    BY <1>1, <2>1, ReportOfIs
  <2>4. m \in Shuffles(ReportOf(x).findings)
    BY <2>3, RowsAre DEF Reported
  <2> QED BY <2>1, <2>2, <2>4 DEF x
<1>3. \A o, p \in Orders : Planned(EvaluatedFrom(o), p) = v
  <2> TAKE o, p \in Orders
  <2> QED BY <1>1, <1>2, SameVerdict
<1> HIDE DEF v
<1>4. Verdicts = {v}
  <2>1. v \in Verdicts
    BY DEF Verdicts, Orders, v
  <2>2. \A x \in Verdicts : x = v
    BY <1>3 DEF Verdicts
  <2> QED BY <2>1, <2>2
<1> QED BY <1>4, FS_Singleton

\* Read as written or reversed, requirements and findings give one verdict (VerdictIsStable).
THEOREM VerdictsAreStable == Spec => []VerdictIsStable
BY PipelineIsInvariant, StableLemma, PTL
-----------------------------------------------------------------------------
(* What a finalization writes                                              *)

\* After, with each line as it was or with a value out of T put into it.
Writes(before, after, T) ==
  /\ DOMAIN after = DOMAIN before
  /\ \A n \in DOMAIN before :
       \/ after[n] = before[n]
       \/ \E t \in T : \E v \in {t, Mangled} : after[n] = [before[n] EXCEPT !.value = v]

LEMMA PatchWrites ==
  ASSUME NEW text, NEW n, NEW r PROVE Writes(text, Patch(text, n, r).text, {r.target})
<1> DEFINE v == Replaced(r.source, r.target, text[n].value)
           after == Patch(text, n, r).text
<1>1. v \in {r.target, Mangled}
  BY DEF Replaced
<1>2. after = [text EXCEPT ![n].value = v]
  BY DEF Patch
<1> HIDE DEF v
<1>3. DOMAIN after = DOMAIN text
  BY <1>2
<1>4. \A k \in DOMAIN text : IF k = n THEN after[k] = [text[k] EXCEPT !.value = v] ELSE after[k] = text[k]
  BY <1>2
<1> HIDE DEF after
<1> QED BY <1>1, <1>3, <1>4 DEF Writes, after

LEMMA WritesTwice ==
  ASSUME NEW T, NEW text, NEW before, NEW after, Writes(text, before, T), Writes(before, after, T)
  PROVE  Writes(text, after, T)
<1>1. DOMAIN after = DOMAIN text /\ DOMAIN before = DOMAIN text
  BY DEF Writes
<1>2. ASSUME NEW n \in DOMAIN text
      PROVE  \/ after[n] = text[n]
             \/ \E t \in T : \E v \in {t, Mangled} : after[n] = [text[n] EXCEPT !.value = v]
  <2>1. CASE after[n] = before[n]
    BY <1>1, <2>1 DEF Writes
  <2>2. CASE \E t \in T : \E v \in {t, Mangled} : after[n] = [before[n] EXCEPT !.value = v]
    <3>1. PICK t \in T : \E v \in {t, Mangled} : after[n] = [before[n] EXCEPT !.value = v]
      BY <2>2
    <3>2. PICK v \in {t, Mangled} : after[n] = [before[n] EXCEPT !.value = v]
      BY <3>1
    <3>3. before[n] = text[n] \/ \E w : before[n] = [text[n] EXCEPT !.value = w]
      BY DEF Writes
    <3>4. \A w : [[text[n] EXCEPT !.value = w] EXCEPT !.value = v] = [text[n] EXCEPT !.value = v]
      OBVIOUS
    <3>5. after[n] = [text[n] EXCEPT !.value = v]
      BY <3>2, <3>3, <3>4
    <3> QED BY <3>1, <3>2, <3>5
  <2> QED BY <1>1, <2>1, <2>2 DEF Writes
<1> QED BY <1>1, <1>2 DEF Writes

\* A change as Generate and Decide leave it.
Drafted(change) ==
  /\ {"action", "file", "target", "status"} \subseteq DOMAIN change
  /\ {"source", "target"} \subseteq DOMAIN change.action

LEMMA WorkingTextWrites ==
  ASSUME NEW change, Drafted(change), NEW text, IsList(text),
         applyPatchToWorkingText(change, text).code = None
  PROVE  Writes(text, applyPatchToWorkingText(change, text).text, {change.target})
<1> DEFINE a == [change.action EXCEPT !.source = plain(change.source), !.target = change.target]
           patch == generatePatch(a, change.file, text)
           result == applyPatchToWorkingText(change, text)
<1>1. a.target = change.target
  BY DEF Drafted
<1>2. result \in {patch, [patch EXCEPT !.code = None, !.text = text]}
  BY DEF applyPatchToWorkingText
<1> HIDE DEF a
<1>3. Returned(patch, text, change.target) /\ IsPatch(patch)
  BY <1>1, GeneratedReturns, GeneratedPatchIs
<1> HIDE DEF patch
<1>4. CASE result = patch
  <2>1. ~ Skipped(patch)
    BY <1>4 DEF Skipped, Skip, result
  <2>2. PICK n, r : r.target = change.target /\ patch = Patch(text, n, r)
    BY <1>3, <2>1 DEF Returned, Replacing
  <2> QED BY <1>4, <2>2, PatchWrites DEF result
<1>5. CASE result = [patch EXCEPT !.code = None, !.text = text]
  <2>1. result.text = text
    BY <1>3, <1>5 DEF IsPatch
  <2> QED BY <2>1 DEF Writes, result
<1> QED BY <1>2, <1>4, <1>5

\* What the accepted changes put into a file.
TargetsIn(i) == {changes[k].target : k \in {x \in Accepted : changes[x].file = i}}

Written(text) ==
  DOMAIN text = DOMAIN repo /\ \A i \in DOMAIN repo : Writes(repo[i], text[i], TargetsIn(i))

LEMMA WithChangeWrites ==
  ASSUME NEW acc, Working(acc), Written(acc.text), NEW k \in Accepted, Drafted(changes[k])
  PROVE  Written(WithChange(acc, changes[k]).text)
<1> DEFINE change == changes[k]
           i == change.file
           patch == applyPatchToWorkingText(change, acc.text[i])
           next == WithChange(acc, change)
<1>1. next = IF ~acc.ok \/ patch.code # None THEN [acc EXCEPT !.ok = FALSE]
             ELSE [acc EXCEPT !.text[i] = patch.text]
  BY DEF WithChange, Applied
<1>2. change.target \in TargetsIn(i)
  BY DEF TargetsIn
<1>3. i \in DOMAIN acc.text /\ patch.code = None => Writes(acc.text[i], patch.text, {change.target})
  BY WorkingTextWrites DEF Working, Shape
<1> HIDE DEF change, i, patch, next
<1>4. CASE ~acc.ok \/ patch.code # None
  <2>1. next.text = acc.text
    BY <1>1, <1>4 DEF Working
  <2> QED BY <2>1 DEF next, change
<1>5. CASE ~ (~acc.ok \/ patch.code # None)
  <2>1. next.text = [acc.text EXCEPT ![i] = patch.text]
    BY <1>1, <1>5 DEF Working
  <2>2. DOMAIN next.text = DOMAIN repo
    BY <2>1 DEF Written
  <2>3. ASSUME NEW j \in DOMAIN repo PROVE Writes(repo[j], next.text[j], TargetsIn(j))
    <3>1. CASE j # i
      BY <2>1, <3>1 DEF Written
    <3>2. CASE j = i
      <4>1. next.text[i] = patch.text
        BY <2>1, <3>2 DEF Written
      <4>2. Writes(acc.text[i], patch.text, TargetsIn(i))
        <5>1. Writes(acc.text[i], patch.text, {change.target})
          BY <1>3, <1>5, <3>2 DEF Written
        <5> QED BY <1>2, <5>1 DEF Writes
      <4>3. Writes(repo[i], acc.text[i], TargetsIn(i))
        BY <3>2 DEF Written
      <4>4. Writes(repo[i], patch.text, TargetsIn(i))
        BY <4>2, <4>3, WritesTwice
      <4> QED BY <3>2, <4>1, <4>4
    <3> QED BY <3>1, <3>2
  <2>4. Written(next.text)
    BY <2>2, <2>3 DEF Written
  <2> QED BY <2>4 DEF next, change
<1> QED BY <1>4, <1>5

LEMMA ApplyWrites ==
  ASSUME Shape(repo), \A k \in Accepted : Drafted(changes[k]),
         NEW order, IsList(order), ToSet(order) \subseteq Accepted
  PROVE  Written(Apply(order).text)
<1> DEFINE N == Len(order)
<1>1. PICK applied : Applying(applied, order) /\ Apply(order) = applied[N]
  BY Unrolled
<1>2. N \in Nat /\ DOMAIN order = 1 .. N
  BY ListFacts
<1>3. \A m \in 0 .. N : applied[m] = IF m = 0 THEN [ok |-> TRUE, text |-> repo]
                                     ELSE WithChange(applied[m - 1], changes[order[m]])
  BY <1>1 DEF Applying
<1> HIDE DEF N
<1> DEFINE P == {n \in 0 .. N : Working(applied[n]) /\ Written(applied[n].text)}
<1>4. 0 \in P
  <2>1. 0 \in 0 .. N
    BY <1>2
  <2>2. Working([ok |-> TRUE, text |-> repo]) /\ Written(repo)
    BY DEF Working, Written, Writes
  <2> QED BY <1>3, <2>1, <2>2
<1>5. ASSUME NEW n \in 1 .. N, n - 1 \in P PROVE n \in P
  <2>1. n \in 0 .. N /\ n # 0
    BY <1>2
  <2>2. applied[n] = WithChange(applied[n - 1], changes[order[n]])
    BY <1>3, <2>1
  <2>3. order[n] \in Accepted
    BY <1>2 DEF ToSet
  <2>4. Working(applied[n])
    BY <1>5, <2>2, WithChangeIs
  <2>5. Written(applied[n].text)
    BY <1>5, <2>2, <2>3, WithChangeWrites
  <2> QED BY <2>1, <2>4, <2>5
<1> HIDE DEF P
<1>6. N \in P
  <2>1. \A n \in 0 .. N : n \in P
    BY <1>2, <1>4, <1>5, Induct
  <2> QED BY <1>2, <2>1
<1> QED BY <1>1, <1>6 DEF P

DraftInv == stage \in {"READY_FOR_REVIEW", "DECIDED"} => \A k \in DOMAIN changes : Drafted(changes[k])

LEMMA NextDraft == PipelineInv /\ DraftInv /\ [Next]_vars => DraftInv'
<1> SUFFICES ASSUME PipelineInv, DraftInv, [Next]_vars PROVE DraftInv'
  OBVIOUS
<1>1. CASE Generate
  <2> DEFINE I == {k \in DOMAIN plan.actions : plan.actions[k].automation = SafeAutomatic}
             safe == At(plan.actions, I)
  <2>1. /\ IsList(plan.actions) /\ changes' = GeneratedFrom(plan)
        /\ \A n \in DOMAIN plan.actions : DOMAIN plan.actions[n] = ActionFields
    BY <1>1 DEF Generate, PipelineInv, PlanFor, Actions, Planning
  <2>2. changes' = [k \in DOMAIN safe |-> Generated(safe[k], repo)]
    BY <2>1 DEF GeneratedFrom, Where
  <2>3. ToSet(safe) \subseteq ToSet(plan.actions)
    <3>1. ToSet(safe) = {plan.actions[k] : k \in I}
      BY <2>1, AtIs
    <3> HIDE DEF safe
    <3> QED BY <3>1 DEF ToSet
  <2> HIDE DEF safe
  <2>4. ASSUME NEW k \in DOMAIN safe PROVE Drafted(Generated(safe[k], repo))
    <3>1. {"source", "target"} \subseteq DOMAIN safe[k]
      BY <2>1, <2>3 DEF ToSet, ActionFields
    <3>2. /\ Generated(safe[k], repo).action = safe[k]
          /\ {"action", "file", "target", "status"} \subseteq DOMAIN Generated(safe[k], repo)
      BY DEF Generated
    <3> QED BY <3>1, <3>2 DEF Drafted
  <2> QED BY <2>2, <2>4 DEF DraftInv
<1>2. CASE Decide
  <2>1. PICK accepted \in SUBSET {k \in DOMAIN changes : changes[k].status = "PROPOSED"} :
          changes' = [k \in DOMAIN changes |->
                        IF changes[k].status = "PROPOSED"
                        THEN [changes[k] EXCEPT !.status = IF k \in accepted THEN "ACCEPTED" ELSE "REJECTED"]
                        ELSE changes[k]]
    BY <1>2 DEF Decide
  <2>2. \A k \in DOMAIN changes : Drafted(changes[k])
    BY <1>2 DEF Decide, DraftInv
  <2>3. \A c, s : Drafted(c) => Drafted([c EXCEPT !.status = s])
    BY DEF Drafted
  <2> QED BY <2>1, <2>2, <2>3 DEF DraftInv
<1>3. CASE stage' \notin {"READY_FOR_REVIEW", "DECIDED"}
  BY <1>3 DEF DraftInv
<1>4. CASE UNCHANGED vars
  BY <1>4 DEF DraftInv, vars
<1> QED BY <1>1, <1>2, <1>3, <1>4 DEF Next, Scan, EvaluateRun, PlanMigration, Finalize, MigrateAgain

LEMMA StepWrites == PipelineInv /\ DraftInv /\ [Next]_vars => Written(repo')
<1> SUFFICES ASSUME PipelineInv, DraftInv, [Next]_vars PROVE Written(repo')
  OBVIOUS
<1>1. CASE repo' = repo
  BY <1>1 DEF Written, Writes
<1>2. CASE Finalize
  <2>1. Shape(repo) /\ IsList(changes) /\ \A k \in Accepted : Drafted(changes[k])
    BY <1>2 DEF Finalize, PipelineInv, DraftInv, Accepted
  <2>2. PICK order \in SetToSeqs(Accepted) : repo' = Apply(order).text \/ repo' = repo
    BY <1>2 DEF Finalize
  <2>3. IsList(order) /\ ToSet(order) \subseteq Accepted
    <3>1. Cardinality(Accepted) \in Nat
      <4>1. Accepted \in SUBSET DOMAIN changes
        BY DEF Accepted
      <4> QED BY <2>1, <4>1, Counted
    <3>2. order \in [1 .. Cardinality(Accepted) -> Accepted]
      BY DEF SetToSeqs
    <3> QED BY <3>1, <3>2, ListOf
  <2> QED BY <1>1, <2>1, <2>2, <2>3, ApplyWrites
<1> QED BY <1>1, <1>2 DEF Next, Scan, EvaluateRun, PlanMigration, Generate, Decide, MigrateAgain, vars

\* Every step: lines change only in the files of accepted changes, only in their value, and to the
\* target of one of them or to a value a target was put into.
OnlyAcceptedIsWritten == [][Written(repo')]_vars

\* What is skipped, rejected or undecided leaves no trace in the finalized revision, whichever
\* patchers the changes are for and in whatever order they are applied (generatePatch,
\* applyPatchToWorkingText, ChangeSetProcessor.finalize).
THEOREM FinalizedAsAccepted == Spec => OnlyAcceptedIsWritten
<1>1. Init => DraftInv
  BY DEF Init, DraftInv
<1>2. Spec => []DraftInv
  BY <1>1, PipelineIsInvariant, NextDraft, PTL DEF Spec
<1>3. PipelineInv /\ DraftInv /\ [Next]_vars => [Written(repo')]_vars
  BY StepWrites
<1> QED BY <1>2, <1>3, PipelineIsInvariant, PTL DEF Spec, OnlyAcceptedIsWritten

=============================================================================
