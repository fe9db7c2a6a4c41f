SPECIFICATION RulesSpec
CONSTANT Families <- OnlineFamilies
INVARIANTS
    OnlineItemsAreKept
CHECK_DEADLOCK FALSE
