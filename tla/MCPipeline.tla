----------------------------- MODULE MCPipeline -----------------------------
(***************************************************************************)
(* The repositories that Pipeline is checked on: every choice of one to    *)
(* MaxLines of the lines of Menu.                                          *)
(***************************************************************************)
EXTENDS PipelineProperties

CONSTANT
  MaxLines       \* bound: lines of a repository that a detector looks for

file(path, category, traits) ==
  [path |-> path, category |-> category, traits |-> traits, size |-> 1, depth |-> 1]

MCFiles ==
  << file(".env", "ENV_TEMPLATE", {}),
     file(".env.example", "ENV_TEMPLATE", {}),
     file("App.sol", "SOLIDITY", {"src"}),
     file("chains.ts", "TYPESCRIPT", {"config"}),
     [file("dump.json", "JSON", {"config"}) EXCEPT !.size = 9],
     file("foundry.toml", "TOML", {"config"}),
     file("networks.json", "JSON", {"config"}),
     file("package.json", "JSON", {}),
     file("page.tsx", "TYPESCRIPT", {"config", "frontend", "pages"}),
     file("test.ts", "TYPESCRIPT", {"config", "tests", "fixtures"}) >>

MCMigrations == {<<"ethereum", "base">>, <<"optimism", "base-sepolia">>, <<"base", "linea">>}

In(path) == CHOOSE i \in DOMAIN MCFiles : MCFiles[i].path = path
Line(path, kind, name, value) == [file |-> In(path), line |-> line(kind, name, value)]

Menu ==
  << Line(".env", "env", "CHAIN_ID", "1"),
     Line(".env.example", "env", "CHAIN_ID", "1"),
     Line(".env.example", "env", "RPC_URL", ""),
     Line(".env.example", "env", "BASE_SEPOLIA_RPC_URL", "https://sepolia"),
     Line(".env.example", "env", "WETH_ADDRESS", Deployed("WETH", "ethereum")),
     Line("App.sol", "address", "USDC", Deployed("USDC", "ethereum")),
     Line("App.sol", "import", "", "CHAINLINK"),
     Line("App.sol", "address", "owner", "0x.owner"),
     Line("chains.ts", "chainId", "chainId", "1"),
     Line("chains.ts", "chainId", "id", "10"),
     Line("chains.ts", "number", "retries", "10"),
     Line("chains.ts", "rpcUrl", "url", "https://node/path"),
     Line("chains.ts", "rpcUrl", "url", rpcUrl("base")),
     Line("chains.ts", "address", "weth", Deployed("WETH", "ethereum")),
     Line("chains.ts", "address", "link", Deployed("LINK", "base")),
     Line("chains.ts", "address", "vault", "0x.vault"),
     Line("chains.ts", "method", "", "debug_traceCall"),
     Line("dump.json", "chainId", "chainId", "1"),
     Line("foundry.toml", "chainId", "ci", "10"),
     Line("foundry.toml", "chainId", "default", "1"),
     Line("networks.json", "chainId", "chainId", "10"),
     Line("networks.json", "address", "link", Deployed("LINK", "base")),
     Line("networks.json", "address", "lzEndpoint", "0x.lz"),
     Line("networks.json", "address", "permit2", Deployed("PERMIT2", "base")),
     Line("package.json", "package", "viem", ""),
     Line("package.json", "package", "uniswap", "UNISWAP_V3"),
     Line("page.tsx", "chainId", "chainId", "1"),
     Line("page.tsx", "rpcUrl", "url", "https://node/path"),
     Line("test.ts", "chainId", "chainId", "1"),
     Line("test.ts", "address", "", "0x.fixture") >>

\* The lines chosen, in the order of the menu.
RepositoryOf(chosen) ==
  [i \in DOMAIN MCFiles |->
     LET lines == SelectSeq([m \in DOMAIN Menu |-> m], LAMBDA m : m \in chosen /\ Menu[m].file = i)
     IN [n \in DOMAIN lines |-> Menu[lines[n]].line]]

MCRepos == {RepositoryOf({pick[n] : n \in 1 .. MaxLines}) : pick \in [1 .. MaxLines -> DOMAIN Menu]}
=============================================================================
