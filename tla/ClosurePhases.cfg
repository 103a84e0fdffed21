SPECIFICATION Spec
CONSTANTS
    Texts <- MCTexts
    Facts <- MCFacts
    Plans <- MCPlans
    NoPlan = "none"
    PlanFacts <- MCPlanFacts
    Requirements <- MCRequirements
    Obligations <- MCObligations
    Parameters <- MCParameters
    Scores <- MCScores
    Tolerance = 1
CHECK_DEADLOCK FALSE
INVARIANTS
    ClosureAccounts
    BoundedDrift
    PublishedClosed
PROPERTIES
    CallEnds
