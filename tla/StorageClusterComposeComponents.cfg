CONSTANTS
    Plans <- MCComponentPlans
    Components <- MCComponents
    ComponentsMap <- MCComponentsMap
    Zones <- MCZones
    NoZone = NoZone

SPECIFICATION Spec

INVARIANT DisabledComponentsIgnored

CHECK_DEADLOCK FALSE
