-------------------------- MODULE ValidationProfile --------------------------
(***************************************************************************)
(* What a validation decides without talking to anybody: the framework of  *)
(* a checked out repository, the commands it is validated with, how a      *)
(* failed command is named, what the test runner's output says, and how    *)
(* the validations of two revisions compare (packages/validation).         *)
(***************************************************************************)
EXTENDS Integers, Sequences

Null == -1

\* A repository as detectWorkspace sees it: the names at its root, the version
\* files (Null when absent, 0 when they name no number) and the package scripts.
LIFECYCLE_SCRIPTS == {"preinstall", "install", "postinstall", "prepublish", "prepare"}
HardhatConfigs    == {"hardhat.config.ts", "hardhat.config.js", "hardhat.config.cjs"}

\* .node-version is read only when there is no .nvmrc, even one without a number.
detectNodeMajor(r) ==
  LET file == IF r.nvmrc # Null THEN r.nvmrc ELSE r.nodeVersion
  IN  IF file > 0 THEN file ELSE IF r.engines > 0 THEN r.engines ELSE Null

packageManager(files) ==
  CASE "pnpm-lock.yaml" \in files    -> "pnpm"
    [] "package-lock.json" \in files /\ "pnpm-lock.yaml" \notin files -> "npm"
    [] "yarn.lock" \in files
       /\ files \cap {"pnpm-lock.yaml", "package-lock.json"} = {}     -> "yarn"
    [] OTHER -> "none"

detectWorkspace(r) ==
  LET foundry == "foundry.toml" \in r.files
      hardhat == HardhatConfigs \cap r.files # {}
  IN  [framework      |-> IF foundry THEN "FOUNDRY" ELSE IF hardhat THEN "HARDHAT" ELSE "none",
       packageManager |-> packageManager(r.files),
       nodeMajor      |-> detectNodeMajor(r),
       hasLifecycleScripts |-> r.scripts \cap LIFECYCLE_SCRIPTS # {},
       hasGitmodules  |-> ".gitmodules" \in r.files,
       dockerRequired |-> "docker-compose.yml" \in r.files /\ ~ foundry /\ ~ hardhat]

-----------------------------------------------------------------------------
SUPPORTED_NODE == {20, 22}

Command(step, network, tool) == [step |-> step, network |-> network, tool |-> tool]

Unsupported(code) == [image |-> "foundry", commands |-> <<>>, unsupported |-> code]

selectProfile(d) ==
  LET build(tool) == <<Command("BUILD", "none", tool), Command("TEST", "none", tool)>>
      modules == IF d.hasGitmodules THEN <<Command("INSTALL", "install", "git")>> ELSE <<>>
  IN  CASE d.dockerRequired -> Unsupported("UNSUPPORTED_TEST_REQUIREMENT")
        [] d.framework = "FOUNDRY" ->
             [image |-> "foundry", commands |-> modules \o build("forge"),
              unsupported |-> "none"]
        [] d.framework = "HARDHAT" ->
             IF d.nodeMajor # Null /\ d.nodeMajor \notin SUPPORTED_NODE
             THEN Unsupported("UNSUPPORTED_RUNTIME_VERSION")
             ELSE IF d.packageManager = "none"
             THEN Unsupported("DEPENDENCY_RESOLUTION_FAILED")
             ELSE [image |-> IF d.nodeMajor = 20 THEN "node20" ELSE "node22",
                   commands |-> <<Command("INSTALL", "install", d.packageManager)>>
                                  \o build("node"),
                   unsupported |-> "none"]
        [] ~ d.dockerRequired /\ d.framework = "none" -> Unsupported("UNSUPPORTED_FRAMEWORK")

classifyCommandFailure(step, hasLifecycleScripts, tool) ==
  CASE step = "INSTALL" -> IF tool = "git" THEN "DEPENDENCY_RESOLUTION_FAILED"
                           ELSE "INSTALL_FAILED"
    [] step = "BUILD"   -> IF hasLifecycleScripts THEN "INSTALL_SCRIPTS_REQUIRED"
                           ELSE "BUILD_FAILED"
    [] step = "TEST"    -> "TEST_FAILED"

\* The outcome a failed command gives the run.
FailureOutcome(code) ==
  IF code \in {"INSTALL_SCRIPTS_REQUIRED", "DEPENDENCY_RESOLUTION_FAILED"}
  THEN "UNSUPPORTED" ELSE "FAILED"

isRetryableValidationError(code) ==
  code \in {"SANDBOX_START_FAILED", "CLEANUP_FAILED", "VALIDATION_FAILED"}

-----------------------------------------------------------------------------
\* A summary line is <<passed, failed, skipped>>, and <<>> when there is none.
NoCounts == [available |-> FALSE, total |-> Null, passed |-> Null, failed |-> Null]

Counted(line) == [available |-> TRUE, total |-> line[1] + line[2] + line[3],
                  passed |-> line[1], failed |-> line[2]]

\* Only the first suite's line is read, and a closing "Test result" before it.
parseForgeOutput(out) ==
  LET line == IF out.result # <<>> THEN out.result
              ELSE IF out.suites # <<>> THEN Head(out.suites) ELSE <<>>
      count(s) == Len(SelectSeq(out.cases, LAMBDA c : c = s))
  IN  IF line # <<>> THEN Counted(line)
      ELSE [available |-> out.cases # <<>>,
            total  |-> IF out.cases = <<>> THEN Null ELSE Len(out.cases),
            passed |-> count("passed"), failed |-> count("failed")]

parseHardhatOutput(out) == IF out.result = <<>> THEN NoCounts ELSE Counted(out.result)

-----------------------------------------------------------------------------
\* The regression verdict on the outcomes of an original and a generated
\* revision, "none" standing for a run that is missing.
compareValidations(original, generated) ==
  LET both == {original, generated} IN
  CASE "none" \in both -> "NOT_COMPARED"
    [] "none" \notin both /\ both \cap {"INFRA_FAILURE", "UNSUPPORTED", "PARTIAL"} # {}
         -> "INCONCLUSIVE"
    [] both = {"PASSED"} -> "NO_REGRESSION"
    [] both = {"FAILED"} -> "BASELINE_ALREADY_FAILING"
    [] original = "PASSED" /\ generated = "FAILED" -> "REGRESSION_DETECTED"
    [] original = "FAILED" /\ generated = "PASSED" -> "INCONCLUSIVE"

=============================================================================
