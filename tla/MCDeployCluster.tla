--------------------------- MODULE MCDeployCluster ---------------------------
(* DeployCluster for TLC: configurations of one to three clusters.         *)
EXTENDS DeployCluster

MCMaxClusters == 3

=============================================================================
