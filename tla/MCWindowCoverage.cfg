SPECIFICATION CoverageSpec
CONSTANTS
    WindowMinutes = 3
    LastMinute = 7
    MaxWindows = 4
INVARIANTS
    GapsAreTheUncoveredMinutes
    RerunsFindTheirWindows
CHECK_DEADLOCK FALSE
