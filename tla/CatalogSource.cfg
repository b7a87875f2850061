CONSTANTS
    ImageArgs <- MCImageArgs
    RegistryImages <- MCRegistryImages
    StageIndexImage <- MCStageIndexImage
    StageTag <- MCStageTag
    DefaultImage <- MCDefaultImage
    TemplateImage <- MCTemplateImage
    LatestTag <- MCLatestTag
    HasSlash <- MCHasSlash
    MaxPolls <- MCMaxPolls
SPECIFICATION Spec
INVARIANTS TypeOK StageAppliedAfterRollout ImageRefPreserved
PROPERTIES Terminates
CHECK_DEADLOCK FALSE
