CONSTANT MaxClusters <- MCMaxClusters
SPECIFICATION Spec
INVARIANTS
    TypeOK
    DoneMeansAllDeployed
CHECK_DEADLOCK FALSE
