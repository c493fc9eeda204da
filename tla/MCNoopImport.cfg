\* The imports of blocks of no-ops, three runs each.
CONSTANTS
    Runs = 3
    Skip = 1
    Take = 1
    KeyringLength = 500
    BlockCapacities = {120}
    Durations = {1}
    Filters = {"noop"}
    Customs = {600}
SPECIFICATION BenchSpec
CHECK_DEADLOCK FALSE
INVARIANTS ImportsPassChecks
