CONSTANTS
    Plans <- AllPlans
    MaxRuns = 2
    NodeCount = 1
    MaxEdits = 1
    MaxInvocations = 2
    MaxAttempts = 2
SPECIFICATION Spec
CHECK_DEADLOCK FALSE
INVARIANTS TypeOK ExpansionExact PreflightCoversAll RunsAttributed SummaryHonest
           EdgesPaired SameIdSameRuns VerdictsFollowRecords VerdictMeansOutcome TimesHonest
