SPECIFICATION Spec
CONSTANTS
    Texts <- MCTexts
    Facts <- MCFacts
    Models <- MCModels
    Obligations <- MCObligations
    NoText = NoText
    LLMScores <- MCLLMScores
    Threshold = 3
    Tolerance = 1
    MaxIterations = 3
CHECK_DEADLOCK FALSE
INVARIANTS
    PeakTracked
    ExitHolds
PROPERTIES
    CandidatesAreFresh
    LoopEnds
