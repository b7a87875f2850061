CONSTANTS
    NClusters <- MCNClusters
    Hub <- MCHub
    ProfileLists <- MCProfileLists
    NameIn <- MCNameIn
    SidecarTries <- MCSidecarTries
    MaxPolls <- MCMaxPolls
SPECIFICATION Spec
INVARIANT ProfilesDistinct
CHECK_DEADLOCK FALSE
