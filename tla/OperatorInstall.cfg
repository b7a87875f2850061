CONSTANTS
    odf = odf
    ocs = ocs
    mcg = mcg
    csiaddons = csiaddons
    ODF <- odf
    OCS <- ocs
    MCG <- mcg
    CSIADDONS <- csiaddons
    MaxPolls <- MCMaxPolls
SPECIFICATION Spec
INVARIANTS
    TypeOK
    InstalledMeansSucceeded
    NoCsvWaitOnPendingPlan
PROPERTIES
    InstallerTerminates
CHECK_DEADLOCK FALSE
