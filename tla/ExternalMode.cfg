CONSTANTS
    Configs <- MCConfigs
    Clusters <- MCClusters

SPECIFICATION Spec

INVARIANTS
    TypeOK
    SecretFromExporter

PROPERTIES
    RefinesAbstract

\* The branch ends in done or failed, where it stops.
CHECK_DEADLOCK FALSE
