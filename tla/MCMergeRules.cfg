SPECIFICATION RulesSpec
CONSTANT Families <- AnyFamilies
INVARIANTS
    NoPoolingThroughMiro
    ImagesHaveOneParent
    EveryWorkComesOutOnce
    DigitisationIsKept
    EbibsKeepTheirMets
CHECK_DEADLOCK FALSE
