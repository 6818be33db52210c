SPECIFICATION Spec
CONSTANTS
    svc = svc
    inc = inc
    own = own
    unknown = unknown
    Nodes <- ThreeNodes
    LabelOf <- Labels
    Edges <- Relations
    Confidences = {60, 90}
    Asked <- OwnerOrUnknown
    Scores = {120}
    LlmAnswers <- AnswersOfTheModel
    None = None
    Hops = 2
    MaxClauses = 2
    InterruptAt = 75
    Orders <- Listings
    MaxEvents = 1
    MaxWrites = 1
    MaxFaults = 3
INVARIANTS
    TypeOK
    MatchesTemplateReasoner
    
    ConfidenceIsEarned
PROPERTIES
    RisksAreWorkedOff
CHECK_DEADLOCK FALSE
