SPECIFICATION Spec
CONSTANTS
    Trees = {old, new}
    MaxNotes = 1
    Measures <- MCMeasures
    ExpectedRuns = 2
    Progress = {2}
    MaxEvents = 1
INVARIANTS
    DryRunMeansTested
CHECK_DEADLOCK FALSE
