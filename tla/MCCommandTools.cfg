SPECIFICATION CommandSpec
CONSTANTS
    Line = {"a", "b"}
    Outputs <- MCOutputs
    Timeouts = {0, 1}
    Filters <- MCFilters
    MaxTime = 2
    Options = 2
INVARIANTS RunsOnlyAllowed KilledIsTimedOut FilteredAsPromised
PROPERTIES CallsAreAnswered
