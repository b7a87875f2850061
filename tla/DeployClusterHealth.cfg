CONSTANT MaxClusters <- MCMaxClusters
SPECIFICATION Spec
INVARIANTS
    DoneMeansHealthy
CHECK_DEADLOCK FALSE
