CONSTANT MaxClusters <- MCMaxClusters
SPECIFICATION Spec
INVARIANTS
    CtxRestoredAfterOcsFailure
CHECK_DEADLOCK FALSE
