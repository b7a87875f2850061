CONSTANTS
    NClusters <- MCNClusters
    Hub <- MCHub
    ProfileLists <- MCProfileLists
    NameIn <- MCNameIn
    SidecarTries <- MCSidecarTries
    MaxPolls <- MCMaxPolls
SPECIFICATION Spec
INVARIANTS TypeOK ValidatedBeforePolicy
PROPERTIES Terminates
CHECK_DEADLOCK FALSE
