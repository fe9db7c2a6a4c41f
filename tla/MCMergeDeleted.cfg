SPECIFICATION RulesSpec
CONSTANT Families <- DeletedFamilies
INVARIANTS
    DeletedWorksAreIgnored
CHECK_DEADLOCK FALSE
