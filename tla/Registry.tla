------------------------------ MODULE Registry ------------------------------
(***************************************************************************)
(* The chain registry: the catalogue of chains, what it tells about each   *)
(* chain as a target, and how the rules look it up.                        *)
(*                                                                         *)
(* A value found in a repository (a chain ID, a URL, an address) is a      *)
(* string named for what it stands for.  The address of a token on a chain *)
(* is Deployed(token, chain); the chains that share an address share the   *)
(* string.                                                                 *)
(***************************************************************************)
EXTENDS Naturals, FiniteSets, Sequences

CONSTANT
  OracleMissing   \* chains whose entry says that Chainlink is missing (none today)

None == "none"    \* null

-----------------------------------------------------------------------------
(* The chains                                                              *)

chain(key, id, kind, family, roles) ==
  [key |-> key, chainId |-> id, networkKind |-> kind, family |-> family, roles |-> roles]

Both == {"source", "target"}

CHAINS ==
  { chain("ethereum",         "1",        "mainnet", "ethereum",       {"source"}),
    chain("sepolia",          "11155111", "testnet", "ethereum",       Both),
    chain("base",             "8453",     "mainnet", "op-stack",       Both),
    chain("base-sepolia",     "84532",    "testnet", "op-stack",       Both),
    chain("optimism",         "10",       "mainnet", "op-stack",       Both),
    chain("optimism-sepolia", "11155420", "testnet", "op-stack",       Both),
    chain("arbitrum-one",     "42161",    "mainnet", "arbitrum-orbit", Both),
    chain("arbitrum-sepolia", "421614",   "testnet", "arbitrum-orbit", Both),
    chain("scroll",           "534352",   "mainnet", "other",          {"target"}),
    chain("linea",            "59144",    "mainnet", "other",          {"target"}),
    chain("unichain",         "130",      "mainnet", "op-stack",       {"target"}),
    chain("world-chain",      "480",      "mainnet", "op-stack",       {"target"}),
    chain("ink",              "57073",    "mainnet", "op-stack",       {"target"}),
    chain("soneium",          "1868",     "mainnet", "op-stack",       {"target"}),
    chain("mode",             "34443",    "mainnet", "op-stack",       {"target"}),
    chain("anvil",            "31337",    "devnet",  "ethereum",       {}) }

ChainKeys == {c.key : c \in CHAINS}
KnownIds  == {c.chainId : c \in CHAINS}

requireChainByKey(key)   == CHOOSE c \in CHAINS : c.key = key
getChainByChainId(id)    == CHOOSE c \in CHAINS : c.chainId = id
listSourceChains         == {c \in CHAINS : "source" \in c.roles}
listTargetChains         == {c \in CHAINS : "target" \in c.roles}

testnetOf == [key \in {"sepolia", "base-sepolia", "optimism-sepolia", "arbitrum-sepolia"} |->
                CASE key = "sepolia"          -> "ethereum"
                  [] key = "base-sepolia"     -> "base"
                  [] key = "optimism-sepolia" -> "optimism"
                  [] key = "arbitrum-sepolia" -> "arbitrum-one"]

listTestnetsFor(mainnet) == {key \in DOMAIN testnetOf : testnetOf[key] = mainnet}

\* Every chain has one catalogued endpoint: viem's default.
rpcUrl(key) == "rpc." \o key

-----------------------------------------------------------------------------
(* What is known of a chain as a target                                    *)

capability(availability, provenance, address) ==
  [availability |-> availability, provenance |-> provenance, address |-> address]

Unknown == capability("UNKNOWN", "UNKNOWN", None)

MATURE_KEYS == {"ethereum", "sepolia", "base", "base-sepolia", "optimism", "optimism-sepolia",
                "arbitrum-one", "arbitrum-sepolia"}

UNISWAP_V3_DECLARED == MATURE_KEYS \cup {"linea", "scroll", "unichain"}
UNISWAP_V2_DECLARED == {"ethereum", "optimism", "arbitrum-one"}
LAYERZERO_DECLARED  == MATURE_KEYS \cup {"linea", "scroll"}
OP_STACK_TOKENS     == {"base", "base-sepolia", "optimism", "optimism-sepolia"}

TOKEN_KEYS == {"USDC", "USDT", "WETH", "LINK"}

\* Where the catalogue has a token.
TOKENS ==
  [USDC |-> MATURE_KEYS \cup {"linea", "scroll"},
   USDT |-> {"ethereum", "base", "optimism", "arbitrum-one"},
   WETH |-> (MATURE_KEYS \ {"arbitrum-sepolia"}) \cup {"linea", "scroll"},
   LINK |-> MATURE_KEYS]

Deployed(token, key) ==
  CASE token = "WETH" /\ key \in OP_STACK_TOKENS -> "0x.WETH.op-stack"
    [] token = "LINK" /\ key \in {"base-sepolia", "optimism-sepolia"} -> "0x.LINK.op-sepolia"
    [] token = "PERMIT2" -> "0x.PERMIT2"
    [] OTHER -> "0x." \o token \o "." \o key

tokensForChain(key) ==
  [token \in TOKEN_KEYS |->
     IF key \in TOKENS[token]
     THEN capability("AVAILABLE", "VERIFIED", Deployed(token, key)) ELSE Unknown]

STANDARD_RPC_METHODS == {"eth_call", "eth_getLogs", "eth_estimateGas", "eth_getCode",
                         "eth_getStorageAt", "eth_feeHistory"}
DEBUG_RPC_METHODS    == {"debug_traceCall", "debug_traceTransaction"}
RPC_METHODS          == STANDARD_RPC_METHODS \cup DEBUG_RPC_METHODS

rpcMethodsForChain ==
  [method \in RPC_METHODS |->
     IF method \in STANDARD_RPC_METHODS THEN capability("AVAILABLE", "VERIFIED", None) ELSE Unknown]

Declared(key, chains) == IF key \in chains THEN capability("AVAILABLE", "DECLARED", None) ELSE Unknown

protocolsForChain(key) ==
  [PERMIT2    |-> IF key \in MATURE_KEYS
                  THEN capability("AVAILABLE", "VERIFIED", Deployed("PERMIT2", key)) ELSE Unknown,
   SAFE       |-> Declared(key, MATURE_KEYS),
   UNISWAP_V3 |-> Declared(key, UNISWAP_V3_DECLARED),
   UNISWAP_V2 |-> Declared(key, UNISWAP_V2_DECLARED),
   UNISWAP_V4 |-> Unknown,
   LAYERZERO  |-> Declared(key, LAYERZERO_DECLARED),
   CHAINLINK_FUNCTIONS |->
     IF key \in MATURE_KEYS
     THEN capability("AVAILABLE", "DECLARED", Deployed("FUNCTIONS", key)) ELSE Unknown]

\* Chainlink is not in the compatibility catalogue: it is the chain's own entry.
oracleStatus(key) ==
  IF key \in OracleMissing THEN "missing"
  ELSE IF key \in MATURE_KEYS THEN "available" ELSE "unknown"

oracleProtocol(key) ==
  CASE oracleStatus(key) = "available" -> capability("AVAILABLE", "DECLARED", None)
    [] oracleStatus(key) = "missing"   -> capability("UNAVAILABLE", "VERIFIED", None)
    [] OTHER                           -> Unknown

buildTargetCapabilitySnapshot(key) ==
  [chainKey   |-> key,
   chainId    |-> requireChainByKey(key).chainId,
   rpcUrls    |-> <<rpcUrl(key)>>,
   tokens     |-> tokensForChain(key),
   rpcMethods |-> rpcMethodsForChain,
   protocols  |-> [id \in DOMAIN protocolsForChain(key) \cup {"CHAINLINK"} |->
                     IF id = "CHAINLINK" THEN oracleProtocol(key) ELSE protocolsForChain(key)[id]]]

lookup(capabilities, key) == IF key \in DOMAIN capabilities THEN capabilities[key] ELSE Unknown

lookupToken(snapshot, symbol)     == lookup(snapshot.tokens, symbol)
lookupRpcMethod(snapshot, method) == lookup(snapshot.rpcMethods, method)
lookupProtocol(snapshot, id)      == lookup(snapshot.protocols, id)
=============================================================================
