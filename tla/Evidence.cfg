SPECIFICATION Spec
CONSTANTS
    Trees = {old, new}
    MaxNotes = 1
    Measures <- MCMeasures
    ExpectedRuns = 2
    Progress = {2}
    MaxEvents = 2
INVARIANTS
    AuditsAgree
    ReasonAgrees
    ValidatedIsThisRun
CHECK_DEADLOCK FALSE
