---------------------------- MODULE MCValidation ----------------------------
(* Repositories of the validation instance, for TLC.                       *)
EXTENDS ValidationProperties, TLC

RepoOf(names, node) == [files |-> names, nvmrc |-> node, nodeVersion |-> Null, engines |-> Null,
                        scripts |-> {}]

SmallRepos == {RepoOf({"foundry.toml"}, Null),
               RepoOf({"hardhat.config.ts", "yarn.lock"}, 20),
               RepoOf({"README.md"}, Null)}

TwoRepos == {RepoOf({"foundry.toml"}, Null), RepoOf({"README.md"}, Null)}

SharedRepos == {RepoOf({"foundry.toml"}, Null)}

Symmetry == Permutations(Workers)

=============================================================================
