---------------------------- MODULE MCDeployment ----------------------------
(***************************************************************************)
(* Instances of Deployment for TLC.                                        *)
(***************************************************************************)
EXTENDS DeploymentProperties, TLC

\* Keys are interchangeable, and so are workers.  Used for safety only.
Symmetry == Permutations(Creds) \cup Permutations(Workers)

\* Whether the repository carries the artifact of an earlier deployment.
NoArtifact  == {}
OneArtifact == {<<None, 1>>}
=============================================================================
