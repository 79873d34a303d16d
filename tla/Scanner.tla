------------------------------ MODULE Scanner -------------------------------
(***************************************************************************)
(* The scanner: what a repository is found to require.                     *)
(*                                                                         *)
(* A repository gives each of Files a sequence of lines; a line is the one *)
(* thing on it that a detector looks for.  What the detectors match with   *)
(* regular expressions on a path or a name is a trait of the file or a     *)
(* word of the name here.                                                  *)
(***************************************************************************)
EXTENDS Registry, SequencesExt

CONSTANTS
  Files,          \* the files of a repository, in the order they are walked
  MaxFiles, MaxFileBytes, MaxTotalBytes, MaxDepth   \* ScannerLimits

\* A line: its kind, the name the value is bound to, and the value.
line(kind, name, value) == [kind |-> kind, name |-> name, value |-> value]

REDACTED == "[REDACTED]"

-----------------------------------------------------------------------------
(* Filtering and sorting: elements of a sequence by the positions that are *)
(* kept, each after those that are below it.                               *)

\* The elements of a set, of which below says what comes before each.
InOrder(below) ==
  [n \in 1 .. Cardinality(DOMAIN below) |->
     CHOOSE k \in DOMAIN below : Cardinality(below[k]) = n - 1]

Listed(s, below) == LET at == InOrder(below) IN [n \in DOMAIN at |-> s[at[n]]]

At(s, I) == Listed(s, [k \in I |-> {j \in I : j < k}])

Where(s, Test(_)) == At(s, {k \in DOMAIN s : Test(s[k])})

FirstOf(s, Same(_, _)) == At(s, {k \in DOMAIN s : \A j \in 1 .. k - 1 : ~Same(s[j], s[k])})

\* By rank; what has one rank stays in order.
SortedBy(s, rank) ==
  Listed(s, [k \in DOMAIN s |->
               {j \in DOMAIN s : rank[j] < rank[k] \/ (rank[j] = rank[k] /\ j < k)}])

-----------------------------------------------------------------------------
(* inventoryRepository                                                     *)

Entry(i, reason) == [file |-> i, analyzed |-> reason = None, skipReason |-> reason]

\* One file of the walk: what was inventoried before it decides whether it is read.
Visit(acc, i) ==
  LET f == Files[i]
      reason == CASE "symlink" \in f.traits              -> "symlink"
                  [] f.size > MaxFileBytes               -> "file_too_large"
                  [] "binary" \in f.traits               -> "binary"
                  [] acc.bytes + f.size > MaxTotalBytes  -> "total_bytes_cap"
                  [] OTHER                               -> None
  IN IF Len(acc.files) >= MaxFiles \/ f.depth > MaxDepth \/ "skipped" \in f.traits
     THEN acc
     ELSE [files |-> Append(acc.files, Entry(i, reason)),
           bytes |-> IF reason = None THEN acc.bytes + f.size ELSE acc.bytes]

inventoryRepository == FoldLeftDomain(Visit, [files |-> <<>>, bytes |-> 0], Files)

Analyzed ==
  Where([i \in DOMAIN Files |-> i],
        LAMBDA i : \E e \in ToSet(inventoryRepository.files) : e.file = i /\ e.analyzed)

-----------------------------------------------------------------------------
(* What the detectors read                                                 *)

Scripts == {"TYPESCRIPT", "JAVASCRIPT"}

\* The lines of the given kinds in some files.
LinesOf(repo, files, kinds) ==
  LET hit(i, n) == [file |-> i, at |-> n, line |-> repo[i][n]]
      found(i) == Where([n \in DOMAIN repo[i] |-> hit(i, n)], LAMBDA h : h.line.kind \in kinds)
  IN FlattenSeq([k \in DOMAIN files |-> found(files[k])])

\* Those in the analysed files that satisfy Reads, in order.
Hits(repo, Reads(_), kinds) == LinesOf(repo, Where(Analyzed, LAMBDA i : Reads(Files[i])), kinds)

\* findLineMatching: the first line of the file that matches.
FirstLine(repo, i, Matches(_)) ==
  CHOOSE n \in DOMAIN repo[i] : Matches(repo[i][n]) /\ \A k \in 1 .. n - 1 : ~Matches(repo[i][k])

evidence(i, n) == [file |-> i, line |-> n]

requirement(category, key, detector, detected, normalized, confidence, where) ==
  [category |-> category, key |-> key, detector |-> detector, detected |-> detected,
   normalized |-> normalized, confidence |-> confidence, evidence |-> where]

Each(hits, Draft(_)) == [k \in DOMAIN hits |-> Draft(hits[k])]

\* Drafts with one key become one: the first, with the evidence of all.
Merge(drafts) ==
  LET same(d) == Where(drafts, LAMBDA e : e.key = d.key)
      merged(d) == [d.draft EXCEPT !.evidence = FlattenSeq(Each(same(d), LAMBDA e : e.draft.evidence))]
  IN Each(FirstOf(drafts, LAMBDA d, e : d.key = e.key), merged)

-----------------------------------------------------------------------------
(* The detectors                                                           *)

IsManifest(f) == f.path = "package.json"
IsSolidity(f) == f.category = "SOLIDITY"

\* The first file of the inventory that matches says that a framework is used.
detectFrameworks(repo) ==
  LET all(P(_)) == {i \in DOMAIN Files : P(Files[i])}
      foundry == all(LAMBDA f : f.path = "foundry.toml")
      hardhat == all(LAMBDA f : "hardhat" \in f.traits)
      sources == all(LAMBDA f : IsSolidity(f) /\ "src" \in f.traits)
      mentioned == \E i \in all(IsManifest) : \E n \in DOMAIN repo[i] : repo[i][n].name = "hardhat"
      found(configs, key) ==
        <<requirement("FRAMEWORK", key, "framework", key, key, "DETECTED",
                      <<evidence(CHOOSE i \in configs : \A j \in configs : i <= j, 1)>>)>>
  IN (IF foundry # {} /\ sources # {} THEN found(foundry, "FOUNDRY") ELSE <<>>)
     \o (IF hardhat # {} /\ mentioned THEN found(hardhat, "HARDHAT") ELSE <<>>)

detectPackages(repo) ==
  LET libraries == Where(Hits(repo, IsManifest, {"package"}),
                         LAMBDA h : h.line.name \in {"viem", "ethers", "wagmi"})
      key(name) == CASE name = "viem" -> "VIEM" [] name = "ethers" -> "ETHERS" [] OTHER -> "WAGMI"
  IN Each(libraries, LAMBDA h :
       requirement("FRONTEND", key(h.line.name), "packages", h.line.name, h.line.name, "DETECTED",
                   <<evidence(h.file, h.at)>>))

detectFrontend(repo) ==
  LET next == Where(Hits(repo, IsManifest, {"package"}), LAMBDA h : h.line.name = "next")
      pages == \E i \in DOMAIN Files : "pages" \in Files[i].traits
  IN IF pages
     THEN Each(next, LAMBDA h : requirement("FRONTEND", "NEXTJS", "frontend", "next", "next",
                                            "DETECTED", <<evidence(h.file, h.at)>>))
     ELSE <<>>

detectSolidity(repo) ==
  Each(Hits(repo, IsSolidity, {"import"}), LAMBDA h :
    requirement("CONFIGURATION", "SOLIDITY_IMPORT", "solidity", h.line.name, h.line.name,
                "DETECTED", <<evidence(h.file, h.at)>>))

\* foundry.toml is parsed for the default profile, a script for its properties, and
\* a JSON file is matched as text; the line is the first one that names a chain ID,
\* except in a script.
detectChainIds(repo) ==
  LET reads(f) == ~("tests" \in f.traits) /\
                  \/ f.path = "foundry.toml"
                  \/ f.category \in Scripts /\ "config" \in f.traits
                  \/ f.category = "JSON"
      named(h) == CASE Files[h.file].path = "foundry.toml" -> h.line.name = "default"
                    [] Files[h.file].category = "JSON"     -> h.line.name = "chainId"
                    [] OTHER -> h.line.name \in {"chainId", "chain_id", "id"}
      isChainId(l) == l.kind = "chainId" /\ l.name # "id"
      at(h) == IF Files[h.file].category \in Scripts THEN h.at ELSE FirstLine(repo, h.file, isChainId)
      hits == Where(Hits(repo, reads, {"chainId"}),
                    LAMBDA h : named(h) /\ h.line.value \in KnownIds)
  IN Each(hits, LAMBDA h :
       requirement("NETWORK", "HARDCODED_CHAIN_ID", "chain-id", h.line.value, h.line.value,
                   "DETECTED", <<evidence(h.file, at(h))>>))

\* KNOWN_ADDRESSES
KnownDeployments ==
  [USDC |-> {"ethereum", "base", "arbitrum-one", "optimism"},
   USDT |-> {"ethereum"},
   WETH |-> {"ethereum", "base", "arbitrum-one"},
   LINK |-> MATURE_KEYS,
   PERMIT2 |-> {"ethereum"}, UNISWAP_V2 |-> {"ethereum"}, UNISWAP_V3 |-> {"ethereum"}]

KnownAs(address) ==
  {key \in DOMAIN KnownDeployments : \E c \in KnownDeployments[key] : Deployed(key, c) = address}

\* What the name an address is bound to says of it.
NamedKeys == [usdc |-> "USDC", usdt |-> "USDT", weth |-> "WETH", link |-> "LINK",
              permit2 |-> "PERMIT2", lzEndpoint |-> "LAYERZERO", v4PoolManager |-> "UNISWAP_V4",
              v3Factory |-> "UNISWAP_V3", v2Router |-> "UNISWAP_V2",
              functionsRouter |-> "CHAINLINK_FUNCTIONS", priceFeed |-> "CHAINLINK",
              gnosisSafe |-> "SAFE"]

CategoryOf(key) ==
  CASE key \in TOKEN_KEYS -> "TOKEN"
    [] key \in {"CHAINLINK", "CHAINLINK_FUNCTIONS"} -> "ORACLE"
    [] key = "LAYERZERO" -> "CROSS_CHAIN"
    [] OTHER -> "PROTOCOL"

\* A name of six letters or more that nothing else claims is a contract of the project's.
ProjectNames == {"vault", "registry"}

classifyAddressContext(address, name) ==
  CASE KnownAs(address) # {}      -> [kind |-> "named", name |-> CHOOSE k \in KnownAs(address) : TRUE]
    [] name \in DOMAIN NamedKeys  -> [kind |-> "named", name |-> NamedKeys[name]]
    [] name \in ProjectNames      -> [kind |-> "project", name |-> name]
    [] OTHER                      -> [kind |-> "unknown", name |-> address]

addressDraft(semantic, address, where) ==
  CASE semantic.kind = "named" ->
         requirement(CategoryOf(semantic.name), semantic.name, "addresses", address, semantic.name,
                     "DETECTED", where)
    [] semantic.kind = "project" ->
         requirement("CONFIGURATION", "PROJECT_DEPLOYMENT", "addresses", address, semantic.name,
                     "DETECTED", where)
    [] OTHER ->
         requirement("CONFIGURATION", "UNKNOWN_EVM_ADDRESS", "addresses", address, address,
                     "UNKNOWN", where)

\* Every address of a file, once, at the first line that has it; what has one name
\* in the whole repository becomes one requirement, of the first address.
detectAddresses(repo) ==
  LET reads(f) == f.category \notin {"MARKDOWN", "ENV_TEMPLATE"} /\ ~("noise" \in f.traits)
      first(h) == \A n \in 1 .. h.at - 1 :
                    ~(repo[h.file][n].kind = "address" /\ repo[h.file][n].value = h.line.value)
      bound(h) == IF Files[h.file].category \in Scripts \cup {"SOLIDITY", "JSON"} THEN h.line.name ELSE ""
      hits == Where(Hits(repo, reads, {"address"}), first)
      draft(h) == LET semantic == classifyAddressContext(h.line.value, bound(h))
                  IN [key |-> <<semantic.kind, semantic.name>>,
                      draft |-> addressDraft(semantic, h.line.value, <<evidence(h.file, h.at)>>)]
  IN Merge(Each(hits, draft))

ProtocolKeys == <<"CHAINLINK", "CHAINLINK_FUNCTIONS", "UNISWAP_V3", "UNISWAP_V2", "LAYERZERO",
                  "SAFE", "PERMIT2">>

MaxProtocolEvidence == 8

\* One requirement for a protocol that a contract imports or the manifest depends on.
detectProtocols(repo) ==
  LET uses(key) == Where(Hits(repo, IsSolidity, {"import"}) \o Hits(repo, IsManifest, {"package"}),
                         LAMBDA h : h.line.value = key)
      used == Where(ProtocolKeys, LAMBDA key : uses(key) # <<>>)
      where(key) == LET all == Each(uses(key), LAMBDA h : evidence(h.file, h.at))
                    IN SubSeq(all, 1, IF Len(all) < MaxProtocolEvidence THEN Len(all)
                                      ELSE MaxProtocolEvidence)
  IN Each(used, LAMBDA key :
       requirement(CategoryOf(key), key, "protocols", key, key, "DETECTED", where(key)))

\* An endpoint without a path gets one, a key in it is masked.
BareUrls   == {rpcUrl(c.key) : c \in CHAINS} \cup {"llamarpc"}
SecretUrls == {"alchemy.key"}
redactSecretUrl(url) ==
  CASE url \in SecretUrls -> url \o REDACTED
    [] url \in BareUrls   -> url \o "/"
    [] OTHER              -> url

\* A method is required once, at the first place it is found, an endpoint as often
\* as it is written.
detectRpc(repo) ==
  LET reads(f) == f.category \in Scripts \cup {"JSON"} /\ ~("tests" \in f.traits)
      script(f) == reads(f) /\ f.category \in Scripts
      methods == Each(Hits(repo, reads, {"method"}), LAMBDA h :
                   requirement("RPC", "RPC_METHOD", "rpc", h.line.value, h.line.value, "DETECTED",
                               <<evidence(h.file, h.at)>>))
      urls == Each(Hits(repo, script, {"rpcUrl"}), LAMBDA h :
                requirement("RPC", "RPC_URL", "rpc", redactSecretUrl(h.line.value),
                            redactSecretUrl(h.line.value), "DETECTED", <<evidence(h.file, h.at)>>))
  IN FirstOf(methods, LAMBDA m, n : m.detected = n.detected) \o urls

-----------------------------------------------------------------------------
(* Environment keys                                                        *)

\* The words of a key that a pattern of the scanner, of a rule or of the planner
\* looks for.
EnvWords ==
  [CHAIN_ID |-> {"CHAIN_ID"}, RPC_URL |-> {"RPC"}, NETWORK |-> {"NETWORK"},
   EXPLORER_URL |-> {"EXPLORER"}, BASE_RPC_URL |-> {"BASE", "RPC"},
   BASE_SEPOLIA_RPC_URL |-> {"BASE", "SEPOLIA", "BASE_SEPOLIA", "RPC"},
   USDC_ADDRESS |-> {"USDC"}, WETH_ADDRESS |-> {"WETH"}, CHAINLINK_FEED |-> {"CHAINLINK"},
   SAFE_ADDRESS |-> {"SAFE"}, RPC_API_KEY |-> {"RPC", "API_KEY"}, PORT |-> {},
   USDC_DECIMALS |-> {"USDC", "DECIMALS"}]

Has(key, words) == EnvWords[key] \cap words # {}

INTERESTING == {"RPC", "CHAIN_ID", "USDC", "USDT", "WETH", "LINK", "CHAINLINK", "LAYERZERO",
                "PERMIT", "SAFE", "PRIVATE_KEY", "API_KEY", "EXPLORER", "NETWORK"}
NON_NETWORK == {"DECIMALS", "DATABASE", "JWT", "PASSWORD", "MNEMONIC"}

\* 24 letters and digits are taken for a secret: an address too.
looksLikeSecretValue(value) == value \in {Deployed(t, c) : t \in TOKEN_KEYS, c \in ChainKeys}

detectEnv(repo) ==
  LET template(f) == f.category = "ENV_TEMPLATE"
      hits == Where(Hits(repo, template, {"env"}),
                LAMBDA h : Has(h.line.name, INTERESTING) /\ ~Has(h.line.name, NON_NETWORK))
      value(h) == IF \/ Files[h.file].path = ".env"
                     \/ looksLikeSecretValue(h.line.value)
                     \/ Has(h.line.name, {"API_KEY", "PRIVATE_KEY"})
                  THEN REDACTED ELSE h.line.value
  IN Each(hits, LAMBDA h :
       requirement("CONFIGURATION", "ENV_KEY", "env", h.line.name, value(h), "DETECTED",
                   <<evidence(h.file, h.at)>>))

-----------------------------------------------------------------------------
(* analyzeRepository                                                       *)

Detectors == <<"framework", "packages", "frontend", "solidity", "chain-id", "addresses",
               "protocols", "rpc", "env">>

detect(detector, repo) ==
  CASE detector = "framework" -> detectFrameworks(repo)
    [] detector = "packages"  -> detectPackages(repo)
    [] detector = "frontend"  -> detectFrontend(repo)
    [] detector = "solidity"  -> detectSolidity(repo)
    [] detector = "chain-id"  -> detectChainIds(repo)
    [] detector = "addresses" -> detectAddresses(repo)
    [] detector = "protocols" -> detectProtocols(repo)
    [] detector = "rpc"       -> detectRpc(repo)
    [] detector = "env"       -> detectEnv(repo)

\* A detector that throws adds nothing and fails nothing.
analyzeRepository(repo, failed) ==
  FlattenSeq([k \in DOMAIN Detectors |->
                IF Detectors[k] \in failed THEN <<>> ELSE detect(Detectors[k], repo)])

hasSolidityContracts(repo) == Hits(repo, IsSolidity, {"import", "address", "pragma"}) # <<>>
=============================================================================
