CONSTANTS
    Plans <- MCPlans
    Components <- MCComponents
    ComponentsMap <- MCComponentsMap
    Zones <- MCZones
    NoZone = NoZone

SPECIFICATION Spec

INVARIANTS
    TypeOK
    DeviceSetMatchesTopology
    LowerRequirementsWin
    EncryptionHonoured


CHECK_DEADLOCK FALSE
